---- MODULE Spec2Model ----
(***************************************************************************)
(* A model of the leveled logger of package logger.                        *)
(*                                                                         *)
(* Go strings are sequences of one-character strings, so that trimming,    *)
(* suffix tests and concatenation are computed as the code computes them.  *)
(* A goroutine is a process with a program counter; the steps of Println   *)
(* are cut where another goroutine can observe or change shared state:     *)
(* at the critical sections of the mutexes and inside the sink's Write.    *)
(***************************************************************************)
EXTENDS Integers, Sequences, FiniteSets, TLC

(***************************************************************************)
(* Bounds of the model.                                                    *)
(***************************************************************************)
\* Number of operations the goroutines start in one behaviour.
MaxCalls == 2
\* The clock readings time.Now() can return are 1..MaxTime.
MaxTime == 2
\* Number of SetupDefaultLogger and Default calls made at program start.
MaxStartupCalls == 3

(***************************************************************************)
(* loglevel.go: the severity scale.                                        *)
(***************************************************************************)
LevelInvalid == 0
LevelPanic == 1
LevelAlert == 2
LevelCritical == 3
LevelError == 4
LevelWarning == 5
LevelNotice == 6
LevelInfo == 7
LevelDebug == 8

\* The 8 real levels.
Levels == LevelPanic..LevelDebug

\* Level arguments a caller can pass: the real levels, the sentinel and one
\* value beyond LevelDebug.
ArgLevels == LevelInvalid..(LevelDebug + 1)

\* A variant of assertLoglevel that checks the upper end of the range only.
assertLoglevel_upperOnly(lvl) == ~(lvl > LevelDebug)

\* assertLoglevel panics if the loglevel does not exist; TRUE means that it
\* returns normally.
assertLoglevel(lvl) == ~(lvl < LevelPanic \/ lvl > LevelDebug)

\* A variant of String for levels numbered from 0, LevelPanic first.
String_fromZero(r) ==
    CASE r = 0 -> <<"P", "a", "n", "i", "c">>
      [] r = 1 -> <<"A", "l", "e", "r", "t">>
      [] r = 2 -> <<"C", "r", "i", "t", "i", "c", "a", "l">>
      [] r = 3 -> <<"E", "r", "r", "o", "r">>
      [] r = 4 -> <<"W", "a", "r", "n", "i", "n", "g">>
      [] r = 5 -> <<"N", "o", "t", "i", "c", "e">>
      [] r = 6 -> <<"I", "n", "f", "o">>
      [] r = 7 -> <<"D", "e", "b", "u", "g">>
      [] OTHER -> <<"U", "n", "d", "e", "f", "i", "n", "e", "d">>

\* Level.String
String(r) ==
    CASE r = LevelPanic    -> <<"P", "a", "n", "i", "c">>
      [] r = LevelAlert    -> <<"A", "l", "e", "r", "t">>
      [] r = LevelCritical -> <<"C", "r", "i", "t", "i", "c", "a", "l">>
      [] r = LevelError    -> <<"E", "r", "r", "o", "r">>
      [] r = LevelWarning  -> <<"W", "a", "r", "n", "i", "n", "g">>
      [] r = LevelNotice   -> <<"N", "o", "t", "i", "c", "e">>
      [] r = LevelInfo     -> <<"I", "n", "f", "o">>
      [] r = LevelDebug    -> <<"D", "e", "b", "u", "g">>
      [] OTHER             -> <<"U", "n", "d", "e", "f", "i", "n", "e", "d">>

\* The ASCII letters, lower and upper case in the same order.
LowerLetters ==
    << "a", "b", "c", "d", "e", "f", "g", "h", "i", "j", "k", "l", "m",
       "n", "o", "p", "q", "r", "s", "t", "u", "v", "w", "x", "y", "z" >>

UpperLetters ==
    << "A", "B", "C", "D", "E", "F", "G", "H", "I", "J", "K", "L", "M",
       "N", "O", "P", "Q", "R", "S", "T", "U", "V", "W", "X", "Y", "Z" >>

\* A variant of ToLower that leaves its input as it is.
ToLower_identity(input) == input

\* strings.ToLower on ASCII text: every upper case letter is replaced by
\* its lower case letter, every other character is copied.
ToLower(input) ==
    [i \in 1..Len(input) |->
        IF \E k \in 1..Len(UpperLetters) : UpperLetters[k] = input[i]
        THEN LowerLetters[CHOOSE k \in 1..Len(UpperLetters) : UpperLetters[k] = input[i]]
        ELSE input[i]]

\* What ParseLevel returns: a Level and an error (nil or not).
ParseResult(lvl, err) == [lvl |-> lvl, err |-> err]

\* A variant of ParseLevel whose fall-through returns no error.
ParseLevel_noError(input) ==
    LET lvl == ToLower(input)
    IN CASE lvl = <<"p", "a", "n", "i", "c">>                -> ParseResult(LevelPanic, "nil")
         [] lvl = <<"a", "l", "e", "r", "t">>                -> ParseResult(LevelAlert, "nil")
         [] lvl = <<"c", "r", "i", "t", "i", "c", "a", "l">> -> ParseResult(LevelCritical, "nil")
         [] lvl = <<"e", "r", "r", "o", "r">>                -> ParseResult(LevelError, "nil")
         [] lvl = <<"w", "a", "r", "n", "i", "n", "g">>      -> ParseResult(LevelWarning, "nil")
         [] lvl = <<"n", "o", "t", "i", "c", "e">>           -> ParseResult(LevelNotice, "nil")
         [] lvl = <<"i", "n", "f", "o">>                     -> ParseResult(LevelInfo, "nil")
         [] lvl = <<"d", "e", "b", "u", "g">>                -> ParseResult(LevelDebug, "nil")
         [] OTHER                                            -> ParseResult(LevelInvalid, "nil")

\* ParseLevel: the switch over strings.ToLower(input); the fall-through
\* returns LevelInvalid and the error of fmt.Errorf.
ParseLevel(input) ==
    LET lvl == ToLower(input)
    IN CASE lvl = <<"p", "a", "n", "i", "c">>                -> ParseResult(LevelPanic, "nil")
         [] lvl = <<"a", "l", "e", "r", "t">>                -> ParseResult(LevelAlert, "nil")
         [] lvl = <<"c", "r", "i", "t", "i", "c", "a", "l">> -> ParseResult(LevelCritical, "nil")
         [] lvl = <<"e", "r", "r", "o", "r">>                -> ParseResult(LevelError, "nil")
         [] lvl = <<"w", "a", "r", "n", "i", "n", "g">>      -> ParseResult(LevelWarning, "nil")
         [] lvl = <<"n", "o", "t", "i", "c", "e">>           -> ParseResult(LevelNotice, "nil")
         [] lvl = <<"i", "n", "f", "o">>                     -> ParseResult(LevelInfo, "nil")
         [] lvl = <<"d", "e", "b", "u", "g">>                -> ParseResult(LevelDebug, "nil")
         [] OTHER                                            -> ParseResult(LevelInvalid, "error")

(***************************************************************************)
(* logger.go: strings and formatting.                                      *)
(***************************************************************************)
LF == "\n"

\* var level2str: the bracketed display form of a level; a Go map lookup of
\* a missing key yields the empty string.
level2str(lvl) ==
    CASE lvl = LevelPanic    -> <<"[", "P", "a", "n", "i", "c", "]">>
      [] lvl = LevelAlert    -> <<"[", "A", "l", "e", "r", "t", "]">>
      [] lvl = LevelCritical -> <<"[", "C", "r", "i", "t", "i", "c", "a", "l", "]">>
      [] lvl = LevelError    -> <<"[", "E", "r", "r", "o", "r", "]">>
      [] lvl = LevelWarning  -> <<"[", "W", "a", "r", "n", "i", "n", "g", "]">>
      [] lvl = LevelNotice   -> <<"[", "N", "o", "t", "i", "c", "e", "]">>
      [] lvl = LevelInfo     -> <<"[", "I", "n", "f", "o", "]">>
      [] lvl = LevelDebug    -> <<"[", "D", "e", "b", "u", "g", "]">>
      [] OTHER               -> <<>>

\* A variant of TrimRight that removes one trailing newline at most.
TrimRight_once(s) ==
    IF s # <<>> /\ s[Len(s)] = LF THEN SubSeq(s, 1, Len(s) - 1) ELSE s

\* strings.TrimRight(s, "\n"): s without its trailing newline characters.
RECURSIVE TrimRight(_)
TrimRight(s) ==
    IF s # <<>> /\ s[Len(s)] = LF
    THEN TrimRight(SubSeq(s, 1, Len(s) - 1))
    ELSE s

\* fmt.Sprint(v...) of string operands: the operands one after the other
\* (Sprint adds a space only between operands that are not strings).
RECURSIVE Sprint(_)
Sprint(v) ==
    IF v = <<>> THEN <<>> ELSE Head(v) \o Sprint(Tail(v))

\* time.Now().Format(layout) at clock reading t: the layout's characters
\* are copied, and the reference hour "3" is replaced by the clock's hour.
Format(t, layout) ==
    [i \in 1..Len(layout) |-> IF layout[i] = "3" THEN ToString(t) ELSE layout[i]]

\* A variant of PrintlnBytes that leaves out the delimiter after the time.
PrintlnBytes_noTimeDelim(lvl, delim, dateTimeFormat, t, record) ==
    IF Len(dateTimeFormat) <= 0
    THEN level2str(lvl) \o delim \o record \o <<LF>>
    ELSE level2str(lvl) \o delim \o Format(t, dateTimeFormat) \o record \o <<LF>>

\* The bytes Println hands to the sink (the two Fprintf calls of Println).
PrintlnBytes(lvl, delim, dateTimeFormat, t, record) ==
    IF Len(dateTimeFormat) <= 0
    THEN level2str(lvl) \o delim \o record \o <<LF>>
    ELSE level2str(lvl) \o delim \o Format(t, dateTimeFormat) \o delim
             \o record \o <<LF>>


(***************************************************************************)
(* Inputs.                                                                 *)
(***************************************************************************)
\* The goroutines that use the Logger.
Procs == {1, 2}

\* The io.Writers a Logger can be bound to (in-memory buffers).
Sinks == {"w1", "w2"}

\* Delimiter arguments of New; the empty one is refused.
ArgDelims == {<<>>, <<"-">>, <<LF>>}

\* Arguments of SetTimeFormat: no timestamp, or the hour followed by "h".
TimeFormats == {<<>>, <<"3", "h">>}

\* Clock readings.
Times == 1..MaxTime

\* Message strings: with no, one and two trailing newlines, with a newline
\* inside, and made of newlines only.
Strs ==
    { <<>>, <<"a">>, <<"a", LF>>, <<"a", LF, LF>>, <<LF>>, <<LF, LF>>,
      <<"a", LF, "b">>, <<"a", LF, "b", LF>> }

\* Variadic operand lists of Println: no operand, one, or two.
Values ==
    {<<>>} \cup {<<s>> : s \in Strs}
        \cup { << <<"a">>, <<"b">> >>, << <<"a", LF, "b", LF>>, <<LF>> >> }

(***************************************************************************)
(* State.                                                                  *)
(***************************************************************************)
VARIABLES
    level,          \* Logger.level
    timeFormat,     \* Logger.timeFormat
    out,            \* Logger.out: the sink the Logger is bound to
    delimiter,      \* Logger.delimiter
    mu,             \* Logger.mu: the goroutine that holds it, or Unlocked
    sink,           \* the bytes each io.Writer has received
    pc,             \* where each goroutine is in its current call
    loc,            \* the locals of each goroutine's current call
    ret,            \* what each goroutine's last completed call returned
    ncalls,         \* number of calls started so far
    hist,           \* history: the gate passes and the completed sink writes
    defaultLogger,  \* var defaultLogger: Nil or the registered Logger
    flag,           \* a LevelFlag value (*f)
    exitStatus,     \* Running, or the status os.Exit ended the process with
    muLevel,        \* Logger.muLevel: the goroutine that holds it, or Unlocked
    muTime          \* Logger.muTime: the goroutine that holds it, or Unlocked

vars ==
    << level, timeFormat, out, delimiter, mu, sink, pc, loc, ret, ncalls,
       hist, defaultLogger, flag, exitStatus, muLevel, muTime >>

\* The process has not called os.Exit.
Running == -1

\* An unlocked sync.Mutex (new(sync.Mutex)).
Unlocked == 0

\* The nil *Logger.
Nil == [id |-> 0, level |-> LevelInvalid, delimiter |-> <<>>, out |-> "nil",
        timeFormat |-> <<>>]

\* The locals of a goroutine that is in no call.
NoLocals ==
    [level |-> LevelInvalid, format |-> <<>>, v |-> <<>>, record |-> <<>>,
     dateTimeFormat |-> <<>>, buf |-> <<>>, dst |-> "nil", pos |-> 0, seq |-> 0,
     caller |-> "", op |-> "", w |-> "nil"]

\* A variant of ReturnTo in which Die and Dief return to their caller.
ReturnTo_caller(g) == "idle"

\* Where a goroutine continues when Println or Printf returns: in Die and
\* Dief at os.Exit, otherwise in the caller of the Logger.
ReturnTo(g) == IF loc[g].caller \in {"Die", "Dief"} THEN "exit" ELSE "idle"

\* The method the goroutine called: op itself, or the convenience method
\* that called it.
OpName(g, op) == IF loc[g].caller = "" THEN op ELSE loc[g].caller

\* The result of a call: kind is "none" before the first call, "panic" if
\* the call panicked, "ok" if it returned; n and err are Println's results;
\* lvl is the level Level returned, or the level argument of the call;
\* str is the string LevelStr or TimeFormat returned, or the delimiter
\* argument of the call; w is the writer argument of the call; ptr is the
\* *Logger that New or Default returned; seq is the call's start ticket.
Result(op, kind, n, lvl, str, seq) ==
    [op |-> op, kind |-> kind, n |-> n, err |-> "nil", lvl |-> lvl,
     str |-> str, w |-> "nil", ptr |-> Nil, seq |-> seq]

NoResult == Result("none", "none", 0, LevelInvalid, <<>>, 0)

\* History events: call seq of goroutine g passed the gate; call seq of
\* goroutine g completed the write of buf to the sink dst; call seq of
\* goroutine g registered the Logger ptr as the default logger.
GateEvent(g, seq) ==
    [ev |-> "gate", g |-> g, seq |-> seq, dst |-> "nil", buf |-> <<>>, ptr |-> Nil,
     err |-> "nil"]

WriteEvent(g, seq, dst, buf) ==
    [ev |-> "write", g |-> g, seq |-> seq, dst |-> dst, buf |-> buf, ptr |-> Nil,
     err |-> "nil"]

SetupEvent(g, seq, ptr) ==
    [ev |-> "setup", g |-> g, seq |-> seq, dst |-> "nil", buf |-> <<>>, ptr |-> ptr,
     err |-> "nil"]

(***************************************************************************)
(* logger.go: construction.                                                *)
(***************************************************************************)
\* A variant of NewPanics that checks the level only.
NewPanics_levelOnly(lvl, delim) == ~assertLoglevel(lvl)

\* New panics on an empty delimiter or an undefined level.
NewPanics(lvl, delim) == Len(delim) < 1 \/ ~assertLoglevel(lvl)

\* The Logger New returns otherwise; id is the identity of the allocation.
New(id, w, lvl, delim) ==
    [id |-> id, level |-> lvl, delimiter |-> delim, out |-> w,
     timeFormat |-> <<>>]

\* No goroutine is in a call, mu is unlocked, the sinks are empty, no
\* default logger is registered, the LevelFlag is new(LevelFlag) and the
\* process runs.
InitIdle ==
    /\ mu = Unlocked
    /\ sink = [s \in Sinks |-> <<>>]
    /\ pc = [g \in Procs |-> "idle"]
    /\ loc = [g \in Procs |-> NoLocals]
    /\ ret = [g \in Procs |-> NoResult]
    /\ ncalls = 0
    /\ hist = <<>>
    /\ defaultLogger = Nil
    /\ flag = 0
    /\ exitStatus = Running
    /\ muLevel = Unlocked
    /\ muTime = Unlocked

\* A Logger freshly constructed by a New call that returned.
InitLogger(ws, lvls, delims) ==
    /\ \E w \in ws, lvl \in lvls, delim \in delims :
          /\ ~NewPanics(lvl, delim)
          /\ level = New(1, w, lvl, delim).level
          /\ delimiter = New(1, w, lvl, delim).delimiter
          /\ out = New(1, w, lvl, delim).out
          /\ timeFormat = New(1, w, lvl, delim).timeFormat
    /\ InitIdle

(***************************************************************************)
(* logger.go: the operations of a Logger with the three mutexes mu,        *)
(* muLevel and muTime.  A critical section of muLevel or muTime is one     *)
(* read or one write of the field it guards and is one step; mu is held    *)
(* across the steps of the sink's Write.                                   *)
(***************************************************************************)
\* A variant of trigger that lets pass only what is strictly more severe.
trigger_strict(lvl) == lvl < level

\* A variant of trigger with the order of severity reversed.
trigger_reversed(lvl) == lvl >= level

\* Logger.trigger, after assertLoglevel returned: the gate.
trigger(lvl) == lvl <= level

\* A goroutine starts a call: it is idle and the call budget is not spent.
CanCall(g) == pc[g] = "idle" /\ ncalls < MaxCalls

\* A variant of CanLock for a Lock that never waits.
CanLock_never_waits(m) == TRUE

\* l.mu.Lock() returns only when no goroutine holds mu.
CanLock(m) == m = Unlocked

\* A variant of WriteDest: the writer the Logger was given first.
WriteDest_stale == "w1"

\* The writer Fprintf is handed: l.out, read under mu.
WriteDest == out

\* Println up to the return of trigger (lines 134-137): panics on an
\* undefined level, returns (0, nil) when the gate is closed, and otherwise
\* computes the record (line 138).
PrintlnTrigger(g, lvls, vals) ==
    /\ CanCall(g)
    /\ \E lvl \in lvls, v \in vals :
          /\ ncalls' = ncalls + 1
          /\ IF ~assertLoglevel(lvl)
             THEN /\ ret' = [ret EXCEPT ![g] =
                        Result("Println", "panic", 0, lvl, <<>>, ncalls + 1)]
                  /\ UNCHANGED << pc, loc, hist >>
             ELSE IF ~trigger(lvl)
             THEN /\ ret' = [ret EXCEPT ![g] =
                        Result("Println", "ok", 0, lvl, <<>>, ncalls + 1)]
                  /\ UNCHANGED << pc, loc, hist >>
             ELSE /\ pc' = [pc EXCEPT ![g] = "timeformat"]
                  /\ loc' = [loc EXCEPT ![g] =
                        [NoLocals EXCEPT !.level = lvl,
                                         !.v = v,
                                         !.record = TrimRight(Sprint(v)),
                                         !.seq = ncalls + 1]]
                  /\ hist' = Append(hist, GateEvent(g, ncalls + 1))
                  /\ UNCHANGED ret
    /\ UNCHANGED << level, timeFormat, out, delimiter, mu, sink,
                    defaultLogger, flag, exitStatus, muLevel, muTime >>

\* Println line 139: dateTimeFormat := l.TimeFormat().
PrintlnTimeFormat(g) ==
    /\ pc[g] = "timeformat"
    /\ loc' = [loc EXCEPT ![g].dateTimeFormat = timeFormat]
    /\ pc' = [pc EXCEPT ![g] = "lock"]
    /\ UNCHANGED << level, timeFormat, out, delimiter, mu, sink, ret, ncalls,
                    hist, defaultLogger, flag, exitStatus, muLevel, muTime >>

\* Println lines 140-146 up to the call of the sink's Write: takes mu, and
\* Fprintf formats the record for the writer l.out.
PrintlnLock(g) ==
    /\ pc[g] = "lock"
    /\ CanLock(mu)
    /\ mu' = g
    /\ \E t \in Times :
          loc' = [loc EXCEPT ![g].buf =
                      PrintlnBytes(loc[g].level, delimiter,
                                   loc[g].dateTimeFormat, t, loc[g].record),
                             ![g].dst = WriteDest,
                             ![g].pos = 0]
    /\ pc' = [pc EXCEPT ![g] = "write"]
    /\ UNCHANGED << level, timeFormat, out, delimiter, sink, ret, ncalls,
                    hist, defaultLogger, flag, exitStatus, muLevel, muTime >>

\* A variant of DeferredUnlock that leaves the mutex as it is.
DeferredUnlock_missing(m, g) == m

\* defer l.mu.Unlock(): the mutex m after the deferred Unlock of goroutine g,
\* which holds it, has run.
DeferredUnlock(m, g) == IF m = g THEN Unlocked ELSE m

\* The sink's Write appends the buffer in two pieces, in two steps: an
\* in-memory buffer gives no atomicity to writers that are not excluded.
\* With the last piece Write and Fprintf return, the deferred Unlock runs
\* and Println returns the byte count and the nil error.
Write(g, op) ==
    /\ pc[g] = "write"
    /\ LET buf == loc[g].buf
           to == IF loc[g].pos = 0 THEN Len(buf) \div 2 ELSE Len(buf)
       IN /\ sink' = [sink EXCEPT ![loc[g].dst] =
                          @ \o SubSeq(buf, loc[g].pos + 1, to)]
          /\ IF to < Len(buf)
             THEN /\ loc' = [loc EXCEPT ![g].pos = to]
                  /\ UNCHANGED << pc, ret, mu, hist >>
             ELSE /\ loc' = [loc EXCEPT ![g] = NoLocals]
                  /\ pc' = [pc EXCEPT ![g] = ReturnTo(g)]
                  /\ ret' = [ret EXCEPT ![g] =
                        Result(OpName(g, op), "ok", Len(buf), loc[g].level, <<>>,
                               loc[g].seq)]
                  /\ mu' = DeferredUnlock(mu, g)
                  /\ hist' = Append(hist,
                        WriteEvent(g, loc[g].seq, loc[g].dst, buf))
    /\ UNCHANGED << level, timeFormat, out, delimiter, ncalls, defaultLogger,
                    flag, exitStatus, muLevel, muTime >>

PrintlnWrite(g) == Write(g, "Println")

\* A variant of SetLevel that stores the level before it checks it.
SetLevel_storesFirst(g, lvls) ==
    /\ CanCall(g)
    /\ \E lvl \in lvls :
          /\ ncalls' = ncalls + 1
          /\ level' = lvl
          /\ ret' = [ret EXCEPT ![g] =
                Result("SetLevel", IF assertLoglevel(lvl) THEN "ok" ELSE "panic", 0,
                       lvl, <<>>, ncalls + 1)]
    /\ UNCHANGED << timeFormat, out, delimiter, mu, sink, pc, loc, hist,
                    defaultLogger, flag, exitStatus, muLevel, muTime >>

\* SetLevel: panics on an undefined level, otherwise stores it under muLevel.
SetLevel(g, lvls) ==
    /\ CanCall(g)
    /\ \E lvl \in lvls :
          /\ ncalls' = ncalls + 1
          /\ IF ~assertLoglevel(lvl)
             THEN /\ ret' = [ret EXCEPT ![g] =
                        Result("SetLevel", "panic", 0, lvl, <<>>, ncalls + 1)]
                  /\ UNCHANGED level
             ELSE /\ CanLock(muLevel)
                  /\ level' = lvl
                  /\ ret' = [ret EXCEPT ![g] =
                        Result("SetLevel", "ok", 0, lvl, <<>>, ncalls + 1)]
    /\ UNCHANGED << timeFormat, out, delimiter, mu, sink, pc, loc, hist,
                    defaultLogger, flag, exitStatus, muLevel, muTime >>

\* Level: the current loglevel, read under muLevel.
Level(g) ==
    /\ CanCall(g)
    /\ CanLock(muLevel)
    /\ ncalls' = ncalls + 1
    /\ ret' = [ret EXCEPT ![g] = Result("Level", "ok", 0, level, <<>>, ncalls + 1)]
    /\ UNCHANGED << level, timeFormat, out, delimiter, mu, sink, pc, loc, hist,
                    defaultLogger, flag, exitStatus, muLevel, muTime >>

\* LevelStr: level2str of the current loglevel, read under muLevel.
LevelStr(g) ==
    /\ CanCall(g)
    /\ CanLock(muLevel)
    /\ ncalls' = ncalls + 1
    /\ ret' = [ret EXCEPT ![g] =
          Result("LevelStr", "ok", 0, LevelInvalid, level2str(level), ncalls + 1)]
    /\ UNCHANGED << level, timeFormat, out, delimiter, mu, sink, pc, loc, hist,
                    defaultLogger, flag, exitStatus, muLevel, muTime >>

\* SetOutput: replaces the writer under mu.
SetOutput(g, ws) ==
    /\ CanCall(g)
    /\ CanLock(mu)
    /\ \E w \in ws : out' = w
    /\ ncalls' = ncalls + 1
    /\ ret' = [ret EXCEPT ![g] =
          Result("SetOutput", "ok", 0, LevelInvalid, <<>>, ncalls + 1)]
    /\ UNCHANGED << level, timeFormat, delimiter, mu, sink, pc, loc, hist,
                    defaultLogger, flag, exitStatus, muLevel, muTime >>

\* SetTimeFormat: stores the format under muTime.
SetTimeFormat(g, formats) ==
    /\ CanCall(g)
    /\ CanLock(muTime)
    /\ \E format \in formats : timeFormat' = format
    /\ ncalls' = ncalls + 1
    /\ ret' = [ret EXCEPT ![g] =
          Result("SetTimeFormat", "ok", 0, LevelInvalid, <<>>, ncalls + 1)]
    /\ UNCHANGED << level, out, delimiter, mu, sink, pc, loc, hist,
                    defaultLogger, flag, exitStatus, muLevel, muTime >>

\* TimeFormat: the current format, read under muTime.
TimeFormat(g) ==
    /\ CanCall(g)
    /\ CanLock(muTime)
    /\ ncalls' = ncalls + 1
    /\ ret' = [ret EXCEPT ![g] =
          Result("TimeFormat", "ok", 0, LevelInvalid, timeFormat, ncalls + 1)]
    /\ UNCHANGED << level, timeFormat, out, delimiter, mu, sink, pc, loc, hist,
                    defaultLogger, flag, exitStatus, muLevel, muTime >>

(***************************************************************************)
(* Spec: two goroutines share one Logger of logger.go and call its         *)
(* operations in any order and interleaving.  The level arguments are the  *)
(* sentinel, the most severe, a middle and the least severe level; the     *)
(* two messages differ, so that the records of two callers do.  The Logger *)
(* is constructed on the writer "w1".                                      *)
(***************************************************************************)
SharedLevels == {LevelInvalid, LevelPanic, LevelWarning, LevelDebug}

SharedValues == { <<<<"a">>>>, <<<<"b", LF>>>> }

Init == InitLogger({"w1"}, SharedLevels, {<<"-">>})

Next ==
    \E g \in Procs :
        \/ PrintlnTrigger(g, SharedLevels, SharedValues)
        \/ PrintlnTimeFormat(g)
        \/ PrintlnLock(g)
        \/ PrintlnWrite(g)
        \/ SetLevel(g, SharedLevels)
        \/ Level(g)
        \/ LevelStr(g)
        \/ SetOutput(g, Sinks)
        \/ SetTimeFormat(g, TimeFormats)
        \/ TimeFormat(g)

Spec == Init /\ [][Next]_vars

\* SpecConfig: Spec from the Loggers that New returns for the most and the
\* least severe level and every delimiter it accepts.
InitConfig == InitLogger({"w1"}, {LevelInvalid, LevelPanic, LevelDebug}, ArgDelims)

SpecConfig == InitConfig /\ [][Next]_vars

(***************************************************************************)
(* SpecPrintln: one goroutine makes one Println call, with every level     *)
(* argument and every operand list, on a Logger in any configuration that  *)
(* New followed by SetLevel, SetTimeFormat and SetOutput calls leaves.     *)
(***************************************************************************)
InitPrintln ==
    /\ \E w \in Sinks, lvl \in ArgLevels, delim \in ArgDelims :
          /\ ~NewPanics(lvl, delim)
          /\ delimiter = New(1, w, lvl, delim).delimiter
    /\ level \in {lvl \in ArgLevels : assertLoglevel(lvl)}
    /\ timeFormat \in TimeFormats
    /\ out \in Sinks
    /\ InitIdle

NextPrintln ==
    \/ ncalls = 0 /\ PrintlnTrigger(1, ArgLevels, Values)
    \/ PrintlnTimeFormat(1)
    \/ PrintlnLock(1)
    \/ PrintlnWrite(1)

SpecPrintln == InitPrintln /\ [][NextPrintln]_vars

(***************************************************************************)
(* The revision of the Logger with the single mutex mu and Printf: every   *)
(* method takes mu first, and trigger and the time format are read under   *)
(* it.                                                                     *)
(***************************************************************************)
\* strings.HasSuffix
HasSuffix(s, suffix) ==
    /\ Len(s) >= Len(suffix)
    /\ SubSeq(s, Len(s) - Len(suffix) + 1, Len(s)) = suffix

\* A variant of autoAppendLF that appends a newline to every input.
autoAppendLF_always(input) == input \o <<LF>>

\* autoAppendLF appends one newline character at the end of input if input
\* doesn't already end with one.
autoAppendLF(input) ==
    IF HasSuffix(input, <<LF>>) THEN input ELSE input \o <<LF>>

\* fmt.Sprintf(format, a...) for formats whose only verb is %s and operand
\* lists with one string per verb: each verb is replaced by its operand
\* and every other character is copied.
RECURSIVE Sprintf(_, _)
Sprintf(format, a) ==
    IF format = <<>> THEN <<>>
    ELSE IF Len(format) >= 2 /\ format[1] = "%" /\ format[2] = "s" /\ a # <<>>
    THEN Head(a) \o Sprintf(SubSeq(format, 3, Len(format)), Tail(a))
    ELSE <<Head(format)>> \o Sprintf(Tail(format), a)

\* The bytes Printf hands to the sink (the two Fprintf calls of Printf).
PrintfBytes(lvl, delim, tf, t, s) ==
    IF Len(tf) > 0
    THEN level2str(lvl) \o delim \o Format(t, tf) \o delim \o autoAppendLF(s)
    ELSE level2str(lvl) \o delim \o autoAppendLF(s)

\* Calls of Printf: a format with its operands.  The formatted messages
\* are empty, end in no, one or two newlines, or are one newline.
PrintfArgs ==
    { <<<<>>, <<>>>>,
      <<<<"x">>, <<>>>>,
      <<<<"x", LF>>, <<>>>>,
      <<<<LF>>, <<>>>>,
      <<<<"%", "s">>, << <<"a">> >>>>,
      <<<<"%", "s", LF>>, << <<"a">> >>>>,
      <<<<"%", "s">>, << <<"a", LF>> >>>>,
      <<<<"%", "s", LF>>, << <<"a", LF>> >>>>,
      <<<<"%", "s">>, << <<>> >>>>,
      <<<<"%", "s", "=", "%", "s">>, << <<"a">>, <<"b">> >>>>,
      <<<<"%", "s", "=", "%", "s", LF>>, << <<"a">>, <<"b">> >>>> }

\* A goroutine calls Printf and reaches l.mu.Lock().
PrintfCall(g, lvls, args) ==
    /\ CanCall(g)
    /\ \E lvl \in lvls, fa \in args :
          loc' = [loc EXCEPT ![g] =
                    [NoLocals EXCEPT !.level = lvl, !.format = fa[1], !.v = fa[2],
                                     !.seq = ncalls + 1]]
    /\ pc' = [pc EXCEPT ![g] = "lockf"]
    /\ ncalls' = ncalls + 1
    /\ UNCHANGED << level, timeFormat, out, delimiter, mu, sink, ret, hist,
                    defaultLogger, flag, exitStatus, muLevel, muTime >>

\* Printf from l.mu.Lock() to the call of the sink's Write: under mu,
\* trigger panics on an undefined level and the deferred Unlock releases mu;
\* with the gate closed Printf returns (0, nil); otherwise Fprintf formats
\* the record for the writer l.out with the time format in force.
PrintfLock(g) ==
    /\ pc[g] = "lockf"
    /\ CanLock(mu)
    /\ IF ~assertLoglevel(loc[g].level)
       THEN /\ ret' = [ret EXCEPT ![g] =
                  Result(OpName(g, "Printf"), "panic", 0, loc[g].level, <<>>, loc[g].seq)]
            /\ pc' = [pc EXCEPT ![g] = "idle"]
            /\ loc' = [loc EXCEPT ![g] = NoLocals]
            /\ UNCHANGED << mu, hist >>
       ELSE IF ~trigger(loc[g].level)
       THEN /\ ret' = [ret EXCEPT ![g] =
                  Result(OpName(g, "Printf"), "ok", 0, loc[g].level, <<>>, loc[g].seq)]
            /\ pc' = [pc EXCEPT ![g] = ReturnTo(g)]
            /\ loc' = [loc EXCEPT ![g] = NoLocals]
            /\ UNCHANGED << mu, hist >>
       ELSE /\ mu' = g
            /\ \E t \in Times :
                  loc' = [loc EXCEPT
                            ![g].record = Sprintf(loc[g].format, loc[g].v),
                            ![g].dateTimeFormat = timeFormat,
                            ![g].buf = PrintfBytes(loc[g].level, delimiter, timeFormat, t,
                                                   Sprintf(loc[g].format, loc[g].v)),
                            ![g].dst = WriteDest,
                            ![g].pos = 0]
            /\ pc' = [pc EXCEPT ![g] = "write"]
            /\ hist' = Append(hist, GateEvent(g, loc[g].seq))
            /\ UNCHANGED ret
    /\ UNCHANGED << level, timeFormat, out, delimiter, sink, ncalls,
                    defaultLogger, flag, exitStatus, muLevel, muTime >>

PrintfWrite(g) == Write(g, "Printf")

(***************************************************************************)
(* SpecPrintf: one goroutine makes one Printf call, with every level       *)
(* argument, on a Logger in any configuration that New followed by         *)
(* SetLevel, SetTimeFormat and SetOutput calls leaves.                     *)
(***************************************************************************)
NextPrintf ==
    \/ ncalls = 0 /\ PrintfCall(1, ArgLevels, PrintfArgs)
    \/ PrintfLock(1)
    \/ PrintfWrite(1)

SpecPrintf == InitPrintln /\ [][NextPrintf]_vars

\* The bytes Println of the single-mutex revision hands to the sink: the
\* operands as fmt.Sprint joins them, followed by one newline.
MutexPrintlnBytes(lvl, delim, tf, t, v) ==
    IF Len(tf) > 0
    THEN level2str(lvl) \o delim \o Format(t, tf) \o delim \o Sprint(v) \o <<LF>>
    ELSE level2str(lvl) \o delim \o Sprint(v) \o <<LF>>

\* A goroutine calls Println and reaches l.mu.Lock().
MutexPrintlnCall(g, lvls, vals) ==
    /\ CanCall(g)
    /\ \E lvl \in lvls, v \in vals :
          loc' = [loc EXCEPT ![g] =
                    [NoLocals EXCEPT !.level = lvl, !.v = v, !.seq = ncalls + 1]]
    /\ pc' = [pc EXCEPT ![g] = "lockp"]
    /\ ncalls' = ncalls + 1
    /\ UNCHANGED << level, timeFormat, out, delimiter, mu, sink, ret, hist,
                    defaultLogger, flag, exitStatus, muLevel, muTime >>

\* Println from l.mu.Lock() to the call of the sink's Write: under mu,
\* trigger panics on an undefined level and the deferred Unlock releases mu;
\* with the gate closed Println returns (0, nil); otherwise Fprintf formats
\* the record for the writer l.out with the time format in force.
MutexPrintlnLock(g) ==
    /\ pc[g] = "lockp"
    /\ CanLock(mu)
    /\ IF ~assertLoglevel(loc[g].level)
       THEN /\ ret' = [ret EXCEPT ![g] =
                  Result(OpName(g, "Println"), "panic", 0, loc[g].level, <<>>, loc[g].seq)]
            /\ pc' = [pc EXCEPT ![g] = "idle"]
            /\ loc' = [loc EXCEPT ![g] = NoLocals]
            /\ UNCHANGED << mu, hist >>
       ELSE IF ~trigger(loc[g].level)
       THEN /\ ret' = [ret EXCEPT ![g] =
                  Result(OpName(g, "Println"), "ok", 0, loc[g].level, <<>>, loc[g].seq)]
            /\ pc' = [pc EXCEPT ![g] = ReturnTo(g)]
            /\ loc' = [loc EXCEPT ![g] = NoLocals]
            /\ UNCHANGED << mu, hist >>
       ELSE /\ mu' = g
            /\ \E t \in Times :
                  loc' = [loc EXCEPT
                            ![g].record = Sprint(loc[g].v),
                            ![g].dateTimeFormat = timeFormat,
                            ![g].buf = MutexPrintlnBytes(loc[g].level, delimiter,
                                                         timeFormat, t, loc[g].v),
                            ![g].dst = WriteDest,
                            ![g].pos = 0]
            /\ pc' = [pc EXCEPT ![g] = "write"]
            /\ hist' = Append(hist, GateEvent(g, loc[g].seq))
            /\ UNCHANGED ret
    /\ UNCHANGED << level, timeFormat, out, delimiter, sink, ncalls,
                    defaultLogger, flag, exitStatus, muLevel, muTime >>

\* SetLevel of the single-mutex revision: panics on an undefined level
\* before it takes mu, otherwise stores the level under mu.
MutexSetLevel(g, lvls) ==
    /\ CanCall(g)
    /\ \E lvl \in lvls :
          /\ ncalls' = ncalls + 1
          /\ IF ~assertLoglevel(lvl)
             THEN /\ ret' = [ret EXCEPT ![g] =
                        Result("SetLevel", "panic", 0, lvl, <<>>, ncalls + 1)]
                  /\ UNCHANGED level
             ELSE /\ CanLock(mu)
                  /\ level' = lvl
                  /\ ret' = [ret EXCEPT ![g] =
                        Result("SetLevel", "ok", 0, lvl, <<>>, ncalls + 1)]
    /\ UNCHANGED << timeFormat, out, delimiter, mu, sink, pc, loc, hist,
                    defaultLogger, flag, exitStatus, muLevel, muTime >>

\* Level of the single-mutex revision: the current loglevel, read under mu.
MutexLevel(g) == CanLock(mu) /\ Level(g)

\* SetTimeFormat of the single-mutex revision: stores the format under mu.
MutexSetTimeFormat(g, formats) == CanLock(mu) /\ SetTimeFormat(g, formats)

(***************************************************************************)
(* SpecMutex: two goroutines share one Logger of the single-mutex revision *)
(* and call Println, Printf and the accessors in any order and             *)
(* interleaving.                                                           *)
(***************************************************************************)
SharedPrintfArgs ==
    { <<<<"%", "s">>, << <<"c">> >>>>,
      <<<<"d", LF>>, <<>>>> }

NextMutex ==
    \E g \in Procs :
        \/ MutexPrintlnCall(g, SharedLevels, SharedValues)
        \/ MutexPrintlnLock(g)
        \/ PrintfCall(g, SharedLevels, SharedPrintfArgs)
        \/ PrintfLock(g)
        \/ Write(g, "Print")
        \/ MutexSetLevel(g, SharedLevels)
        \/ MutexLevel(g)
        \/ SetOutput(g, Sinks)
        \/ MutexSetTimeFormat(g, TimeFormats)

SpecMutex == Init /\ [][NextMutex]_vars

(***************************************************************************)
(* The default logger: var defaultLogger, Default and SetupDefaultLogger.  *)
(* A *Logger is its allocation's identity, the start ticket of the call    *)
(* that constructed it, with the fields New gave it.                       *)
(***************************************************************************)
\* A variant of DefaultPanics that never panics.
DefaultPanics_never == FALSE

\* Default panics if SetupDefaultLogger has not been called yet.
DefaultPanics == defaultLogger = Nil

\* The goroutine can make one more call on the default logger's registry.
CanCallAtStartup(g) == pc[g] = "idle" /\ ncalls < MaxStartupCalls

\* A call of New: panics, or returns the new Logger.
NewCall(g, ws, lvls, delims) ==
    /\ CanCall(g)
    /\ \E w \in ws, lvl \in lvls, delim \in delims :
          ret' = [ret EXCEPT ![g] =
                    IF NewPanics(lvl, delim)
                    THEN [Result("New", "panic", 0, lvl, delim, ncalls + 1)
                             EXCEPT !.w = w]
                    ELSE [Result("New", "ok", 0, lvl, delim, ncalls + 1)
                             EXCEPT !.w = w, !.ptr = New(ncalls + 1, w, lvl, delim)]]
    /\ ncalls' = ncalls + 1
    /\ UNCHANGED << level, timeFormat, out, delimiter, mu, sink, pc, loc, hist,
                    defaultLogger, flag, exitStatus, muLevel, muTime >>

\* SetupDefaultLogger: defaultLogger = New(w, level, delimiter); when New
\* panics the assignment does not happen.
SetupDefaultLogger(g, ws, lvls, delims) ==
    /\ CanCallAtStartup(g)
    /\ \E w \in ws, lvl \in lvls, delim \in delims :
          IF NewPanics(lvl, delim)
          THEN /\ ret' = [ret EXCEPT ![g] =
                     [Result("SetupDefaultLogger", "panic", 0, lvl, delim, ncalls + 1)
                         EXCEPT !.w = w]]
               /\ UNCHANGED << defaultLogger, hist >>
          ELSE /\ defaultLogger' = New(ncalls + 1, w, lvl, delim)
               /\ ret' = [ret EXCEPT ![g] =
                     [Result("SetupDefaultLogger", "ok", 0, lvl, delim, ncalls + 1)
                         EXCEPT !.w = w]]
               /\ hist' = Append(hist,
                     SetupEvent(g, ncalls + 1, New(ncalls + 1, w, lvl, delim)))
    /\ ncalls' = ncalls + 1
    /\ UNCHANGED << level, timeFormat, out, delimiter, mu, sink, pc, loc, flag,
                    exitStatus, muLevel, muTime >>

\* Default: returns the default logger, panics if there is none.
Default(g) ==
    /\ CanCallAtStartup(g)
    /\ ret' = [ret EXCEPT ![g] =
          IF DefaultPanics
          THEN Result("Default", "panic", 0, LevelInvalid, <<>>, ncalls + 1)
          ELSE [Result("Default", "ok", 0, LevelInvalid, <<>>, ncalls + 1)
                   EXCEPT !.ptr = defaultLogger]]
    /\ ncalls' = ncalls + 1
    /\ UNCHANGED << level, timeFormat, out, delimiter, mu, sink, pc, loc, hist,
                    defaultLogger, flag, exitStatus, muLevel, muTime >>

(***************************************************************************)
(* SpecNew: one goroutine calls New with every level, delimiter and        *)
(* writer.                                                                 *)
(***************************************************************************)
InitNew == InitLogger({"w1"}, {LevelDebug}, {<<"-">>})

NextNew == NewCall(1, Sinks, ArgLevels, ArgDelims)

SpecNew == InitNew /\ [][NextNew]_vars

(***************************************************************************)
(* SpecDefault: at program start one goroutine calls SetupDefaultLogger    *)
(* and Default in any order; the arguments of SetupDefaultLogger are two   *)
(* writers, the sentinel, the most and the least severe level, and the     *)
(* empty and a one-character delimiter.                                    *)
(***************************************************************************)
InitDefault == InitLogger({"w1"}, {LevelDebug}, {<<"-">>})

NextDefault ==
    \/ SetupDefaultLogger(1, Sinks, {LevelInvalid, LevelPanic, LevelDebug},
                          {<<>>, <<"-">>})
    \/ Default(1)

SpecDefault == InitDefault /\ [][NextDefault]_vars

(***************************************************************************)
(* The convenience methods of the single-mutex revision, Die and Dief, and *)
(* a sink whose Write fails.                                               *)
(***************************************************************************)
\* The methods that call Println, and those that call Printf.
PrintNames ==
    {"Panic", "Alert", "Critical", "Error", "Warning", "Notice", "Info", "Debug"}

PrintfNames ==
    {"Panicf", "Alertf", "Criticalf", "Errorf", "Warningf", "Noticef", "Infof",
     "Debugf"}

\* A variant of WrapperLevel in which Info and Infof log at LevelNotice.
WrapperLevel_infoAsNotice(name) ==
    CASE name \in {"Panic", "Panicf"}       -> LevelPanic
      [] name \in {"Alert", "Alertf"}       -> LevelAlert
      [] name \in {"Critical", "Criticalf"} -> LevelCritical
      [] name \in {"Error", "Errorf"}       -> LevelError
      [] name \in {"Warning", "Warningf"}   -> LevelWarning
      [] name \in {"Notice", "Noticef"}     -> LevelNotice
      [] name \in {"Info", "Infof"}         -> LevelNotice
      [] name \in {"Debug", "Debugf"}       -> LevelDebug

\* The level each convenience method passes to Println or Printf.
WrapperLevel(name) ==
    CASE name \in {"Panic", "Panicf"}       -> LevelPanic
      [] name \in {"Alert", "Alertf"}       -> LevelAlert
      [] name \in {"Critical", "Criticalf"} -> LevelCritical
      [] name \in {"Error", "Errorf"}       -> LevelError
      [] name \in {"Warning", "Warningf"}   -> LevelWarning
      [] name \in {"Notice", "Noticef"}     -> LevelNotice
      [] name \in {"Info", "Infof"}         -> LevelInfo
      [] name \in {"Debug", "Debugf"}       -> LevelDebug

\* A goroutine calls l.X(v...) for X in names: return l.Println(LevelX, v...).
PrintShortcut(g, names, vals) ==
    /\ CanCall(g)
    /\ \E name \in names, v \in vals :
          loc' = [loc EXCEPT ![g] =
                    [NoLocals EXCEPT !.level = WrapperLevel(name), !.v = v,
                                     !.seq = ncalls + 1, !.caller = name]]
    /\ pc' = [pc EXCEPT ![g] = "lockp"]
    /\ ncalls' = ncalls + 1
    /\ UNCHANGED << level, timeFormat, out, delimiter, mu, sink, ret, hist,
                    defaultLogger, flag, exitStatus, muLevel, muTime >>

\* A goroutine calls l.Xf(format, a...): return l.Printf(LevelX, format, a...).
PrintfShortcut(g, names, args) ==
    /\ CanCall(g)
    /\ \E name \in names, fa \in args :
          loc' = [loc EXCEPT ![g] =
                    [NoLocals EXCEPT !.level = WrapperLevel(name), !.format = fa[1],
                                     !.v = fa[2], !.seq = ncalls + 1,
                                     !.caller = name]]
    /\ pc' = [pc EXCEPT ![g] = "lockf"]
    /\ ncalls' = ncalls + 1
    /\ UNCHANGED << level, timeFormat, out, delimiter, mu, sink, ret, hist,
                    defaultLogger, flag, exitStatus, muLevel, muTime >>

\* A goroutine calls l.Die(v...): l.Panic(v...), then os.Exit(1).
Die(g, vals) ==
    /\ CanCall(g)
    /\ \E v \in vals :
          loc' = [loc EXCEPT ![g] =
                    [NoLocals EXCEPT !.level = WrapperLevel("Panic"), !.v = v,
                                     !.seq = ncalls + 1, !.caller = "Die"]]
    /\ pc' = [pc EXCEPT ![g] = "lockp"]
    /\ ncalls' = ncalls + 1
    /\ UNCHANGED << level, timeFormat, out, delimiter, mu, sink, ret, hist,
                    defaultLogger, flag, exitStatus, muLevel, muTime >>

\* A goroutine calls l.Dief(format, a...): l.Panicf(format, a...), then
\* os.Exit(1).
Dief(g, args) ==
    /\ CanCall(g)
    /\ \E fa \in args :
          loc' = [loc EXCEPT ![g] =
                    [NoLocals EXCEPT !.level = WrapperLevel("Panicf"), !.format = fa[1],
                                     !.v = fa[2], !.seq = ncalls + 1,
                                     !.caller = "Dief"]]
    /\ pc' = [pc EXCEPT ![g] = "lockf"]
    /\ ncalls' = ncalls + 1
    /\ UNCHANGED << level, timeFormat, out, delimiter, mu, sink, ret, hist,
                    defaultLogger, flag, exitStatus, muLevel, muTime >>

\* The status Die and Dief pass to os.Exit.
DieExitStatus == 1

\* os.Exit(1) in Die and Dief: the process ends with status 1.
Exit(g) ==
    /\ pc[g] = "exit"
    /\ exitStatus' = DieExitStatus
    /\ pc' = [pc EXCEPT ![g] = "exited"]
    /\ UNCHANGED << level, timeFormat, out, delimiter, mu, sink, loc, ret, ncalls,
                    hist, defaultLogger, flag, muLevel, muTime >>

\* The errors a sink's Write can return.
SinkErrors == {"ErrShortWrite", "ErrClosed"}

\* Call seq of goroutine g got the error err from the Write of sink dst,
\* which had accepted the bytes buf.
FailEvent(g, seq, dst, buf, err) ==
    [ev |-> "fail", g |-> g, seq |-> seq, dst |-> dst, buf |-> buf, ptr |-> Nil,
     err |-> err]

\* A variant of FailedWrite that swallows the error.
FailedWrite_swallowed(g, err) == [n |-> loc[g].pos, err |-> "nil"]

\* What Println and Printf return when the sink's Write returned err: the
\* results of Fprintf, which are those of Write.
FailedWrite(g, err) == [n |-> loc[g].pos, err |-> err]

\* The sink's Write fails: it has accepted the bytes written so far and
\* returns their count and an error; Fprintf returns both, the deferred
\* Unlock runs, and Println or Printf returns them.
WriteFails(g, op) ==
    /\ pc[g] = "write"
    /\ \E err \in SinkErrors :
          /\ ret' = [ret EXCEPT ![g] =
                [Result(OpName(g, op), "ok", FailedWrite(g, err).n, loc[g].level,
                        <<>>, loc[g].seq)
                    EXCEPT !.err = FailedWrite(g, err).err]]
          /\ hist' = Append(hist,
                FailEvent(g, loc[g].seq, loc[g].dst,
                          SubSeq(loc[g].buf, 1, loc[g].pos), err))
    /\ loc' = [loc EXCEPT ![g] = NoLocals]
    /\ pc' = [pc EXCEPT ![g] = ReturnTo(g)]
    /\ mu' = DeferredUnlock(mu, g)
    /\ UNCHANGED << level, timeFormat, out, delimiter, sink, ncalls, defaultLogger,
                    flag, exitStatus, muLevel, muTime >>

(***************************************************************************)
(* FairSpec: the calls of logger.go at the grain of their Lock calls.  A   *)
(* goroutine that has entered a method waits at each Lock until the mutex  *)
(* is free.  Println takes and releases muLevel in trigger, then muTime in *)
(* TimeFormat, then mu around Fprintf; the other methods lock one mutex    *)
(* around one load or store.                                               *)
(***************************************************************************)
LiveLevels == {LevelInvalid, LevelPanic, LevelDebug}

LiveValues == { <<<<"a">>>> }

LiveFormats == { <<"3", "h">> }

\* The mutex each accessor locks.
MutexOf(op) ==
    CASE op \in {"SetLevel", "Level", "LevelStr"} -> muLevel
      [] op \in {"SetTimeFormat", "TimeFormat"}   -> muTime
      [] op = "SetOutput"                          -> mu

\* Println is called: trigger's assertLoglevel (line 75) panics on an
\* undefined level before any Lock; otherwise the goroutine is at
\* l.muLevel.Lock().
LivePrintlnCall(g, lvls, vals) ==
    /\ CanCall(g)
    /\ \E lvl \in lvls, v \in vals :
          /\ ncalls' = ncalls + 1
          /\ IF ~assertLoglevel(lvl)
             THEN /\ ret' = [ret EXCEPT ![g] =
                        Result("Println", "panic", 0, lvl, <<>>, ncalls + 1)]
                  /\ UNCHANGED << pc, loc >>
             ELSE /\ pc' = [pc EXCEPT ![g] = "trigger"]
                  /\ loc' = [loc EXCEPT ![g] =
                        [NoLocals EXCEPT !.op = "Println",
                                         !.level = lvl,
                                         !.v = v,
                                         !.seq = ncalls + 1]]
                  /\ UNCHANGED ret
    /\ UNCHANGED << level, timeFormat, out, delimiter, mu, sink, hist,
                    defaultLogger, flag, exitStatus, muLevel, muTime >>

\* trigger line 76: l.muLevel.Lock().
LiveTriggerLock(g) ==
    /\ pc[g] = "trigger"
    /\ CanLock(muLevel)
    /\ muLevel' = g
    /\ pc' = [pc EXCEPT ![g] = "triggered"]
    /\ UNCHANGED << level, timeFormat, out, delimiter, mu, sink, loc, ret,
                    ncalls, hist, defaultLogger, flag, exitStatus, muTime >>

\* trigger lines 77-81 and Println lines 135-138: the comparison with
\* l.level, the deferred Unlock of muLevel, and either the return of
\* (0, nil) or the record.
LiveTriggerReturn(g) ==
    /\ pc[g] = "triggered"
    /\ muLevel' = DeferredUnlock(muLevel, g)
    /\ IF ~trigger(loc[g].level)
       THEN /\ ret' = [ret EXCEPT ![g] =
                  Result("Println", "ok", 0, loc[g].level, <<>>, loc[g].seq)]
            /\ loc' = [loc EXCEPT ![g] = NoLocals]
            /\ pc' = [pc EXCEPT ![g] = "idle"]
            /\ UNCHANGED hist
       ELSE /\ loc' = [loc EXCEPT ![g].record = TrimRight(Sprint(loc[g].v))]
            /\ pc' = [pc EXCEPT ![g] = "timeformat"]
            /\ hist' = Append(hist, GateEvent(g, loc[g].seq))
            /\ UNCHANGED ret
    /\ UNCHANGED << level, timeFormat, out, delimiter, mu, sink, ncalls,
                    defaultLogger, flag, exitStatus, muTime >>

\* TimeFormat line 173, called at Println line 139: l.muTime.Lock().
LiveTimeFormatLock(g) ==
    /\ pc[g] = "timeformat"
    /\ CanLock(muTime)
    /\ muTime' = g
    /\ pc' = [pc EXCEPT ![g] = "timeformatted"]
    /\ UNCHANGED << level, timeFormat, out, delimiter, mu, sink, loc, ret,
                    ncalls, hist, defaultLogger, flag, exitStatus, muLevel >>

\* TimeFormat lines 174-175: the load of l.timeFormat and the deferred
\* Unlock of muTime; the goroutine is then at l.mu.Lock() (line 140).
LiveTimeFormatReturn(g) ==
    /\ pc[g] = "timeformatted"
    /\ muTime' = DeferredUnlock(muTime, g)
    /\ loc' = [loc EXCEPT ![g].dateTimeFormat = timeFormat]
    /\ pc' = [pc EXCEPT ![g] = "lock"]
    /\ UNCHANGED << level, timeFormat, out, delimiter, mu, sink, ret, ncalls,
                    hist, defaultLogger, flag, exitStatus, muLevel >>

\* SetLevel is called: assertLoglevel (line 151) panics on an undefined
\* level before the Lock; otherwise the goroutine is at l.muLevel.Lock().
LiveSetLevelCall(g, lvls) ==
    /\ CanCall(g)
    /\ \E lvl \in lvls :
          /\ ncalls' = ncalls + 1
          /\ IF ~assertLoglevel(lvl)
             THEN /\ ret' = [ret EXCEPT ![g] =
                        Result("SetLevel", "panic", 0, lvl, <<>>, ncalls + 1)]
                  /\ UNCHANGED << pc, loc >>
             ELSE /\ pc' = [pc EXCEPT ![g] = "accessor"]
                  /\ loc' = [loc EXCEPT ![g] =
                        [NoLocals EXCEPT !.op = "SetLevel",
                                         !.level = lvl,
                                         !.seq = ncalls + 1]]
                  /\ UNCHANGED ret
    /\ UNCHANGED << level, timeFormat, out, delimiter, mu, sink, hist,
                    defaultLogger, flag, exitStatus, muLevel, muTime >>

\* Level, LevelStr, TimeFormat, SetTimeFormat or SetOutput is called: the
\* goroutine is at the Lock in the method's first line.
LiveAccessorCall(g, ops, formats, ws) ==
    /\ CanCall(g)
    /\ ncalls' = ncalls + 1
    /\ \E op \in ops, format \in formats, w \in ws :
          loc' = [loc EXCEPT ![g] =
                    [NoLocals EXCEPT !.op = op,
                                     !.format = IF op = "SetTimeFormat"
                                                THEN format ELSE <<>>,
                                     !.w = IF op = "SetOutput" THEN w ELSE "nil",
                                     !.seq = ncalls + 1]]
    /\ pc' = [pc EXCEPT ![g] = "accessor"]
    /\ UNCHANGED << level, timeFormat, out, delimiter, mu, sink, ret, hist,
                    defaultLogger, flag, exitStatus, muLevel, muTime >>

\* The body of an accessor: Lock, one load or store, the deferred Unlock and
\* the return.  Nothing in it waits, so it is one step that needs the mutex
\* free and leaves it free.
LiveAccessorReturn(g) ==
    /\ pc[g] = "accessor"
    /\ LET op == loc[g].op
       IN /\ CanLock(MutexOf(op))
          /\ level' = IF op = "SetLevel" THEN loc[g].level ELSE level
          /\ timeFormat' = IF op = "SetTimeFormat" THEN loc[g].format
                           ELSE timeFormat
          /\ out' = IF op = "SetOutput" THEN loc[g].w ELSE out
          /\ ret' = [ret EXCEPT ![g] =
                CASE op = "SetLevel" ->
                        Result(op, "ok", 0, loc[g].level, <<>>, loc[g].seq)
                  [] op = "Level" ->
                        Result(op, "ok", 0, level, <<>>, loc[g].seq)
                  [] op = "LevelStr" ->
                        Result(op, "ok", 0, LevelInvalid, level2str(level),
                               loc[g].seq)
                  [] op = "TimeFormat" ->
                        Result(op, "ok", 0, LevelInvalid, timeFormat,
                               loc[g].seq)
                  [] OTHER ->
                        Result(op, "ok", 0, LevelInvalid, <<>>, loc[g].seq)]
    /\ loc' = [loc EXCEPT ![g] = NoLocals]
    /\ pc' = [pc EXCEPT ![g] = "idle"]
    /\ UNCHANGED << delimiter, mu, sink, ncalls, hist, defaultLogger, flag,
                    exitStatus, muLevel, muTime >>

LiveAccessors == {"Level", "LevelStr", "TimeFormat", "SetTimeFormat", "SetOutput"}

InitLive == InitLogger({"w1"}, {LevelPanic, LevelDebug}, {<<"-">>})

LiveStep(g) ==
    \/ LivePrintlnCall(g, LiveLevels, LiveValues)
    \/ LiveTriggerLock(g)
    \/ LiveTriggerReturn(g)
    \/ LiveTimeFormatLock(g)
    \/ LiveTimeFormatReturn(g)
    \/ PrintlnLock(g)
    \/ PrintlnWrite(g)
    \/ LiveSetLevelCall(g, LiveLevels)
    \/ LiveAccessorCall(g, LiveAccessors, LiveFormats, Sinks)
    \/ LiveAccessorReturn(g)

NextLive == \E g \in Procs : LiveStep(g)

\* The steps of a goroutine that is inside a call.  The caller need not
\* call again, so the call steps are not among them.
LiveProgress(g) ==
    \/ LiveTriggerLock(g)
    \/ LiveTriggerReturn(g)
    \/ LiveTimeFormatLock(g)
    \/ LiveTimeFormatReturn(g)
    \/ PrintlnLock(g)
    \/ PrintlnWrite(g)
    \/ LiveAccessorReturn(g)

\* Fair scheduling: a goroutine inside a call is scheduled again, the
\* sink's Write returns, and a goroutine waiting at a Lock gets the mutex
\* if it is free again and again (sync.Mutex hands a starving waiter the
\* mutex).
Fairness == \A g \in Procs : SF_vars(LiveProgress(g))

FairSpec == InitLive /\ [][NextLive]_vars /\ Fairness

(***************************************************************************)
(* SpecDie: two goroutines share one Logger of the single-mutex revision,  *)
(* constructed with any level, and call Die, Dief, Panic, Panicf and       *)
(* SetLevel; the sink's Write may fail.  Nothing runs once the process has *)
(* exited.                                                                 *)
(***************************************************************************)
InitDie == InitLogger({"w1"}, Levels, {<<"-">>})

NextDie ==
    /\ exitStatus = Running
    /\ \E g \in Procs :
          \/ Die(g, SharedValues)
          \/ Dief(g, SharedPrintfArgs)
          \/ PrintShortcut(g, {"Panic"}, SharedValues)
          \/ PrintfShortcut(g, {"Panicf"}, SharedPrintfArgs)
          \/ MutexPrintlnLock(g)
          \/ PrintfLock(g)
          \/ Write(g, "Print")
          \/ WriteFails(g, "Print")
          \/ Exit(g)
          \/ MutexSetLevel(g, SharedLevels)

SpecDie == InitDie /\ [][NextDie]_vars

(***************************************************************************)
(* SpecPanic: SpecDie with, in addition, direct Println and Printf calls   *)
(* at the most severe and at the least severe level.                       *)
(***************************************************************************)
PanicLevels == {LevelPanic, LevelDebug}

PanicValues == { <<<<"a">>>> }

PanicPrintfArgs == { <<<<"a">>, <<>>>> }

NextPanic ==
    /\ exitStatus = Running
    /\ \E g \in Procs :
          \/ MutexPrintlnCall(g, PanicLevels, PanicValues)
          \/ PrintfCall(g, PanicLevels, PanicPrintfArgs)
          \/ PrintShortcut(g, {"Panic"}, PanicValues)
          \/ PrintfShortcut(g, {"Panicf"}, PanicPrintfArgs)
          \/ Die(g, PanicValues)
          \/ Dief(g, PanicPrintfArgs)
          \/ MutexPrintlnLock(g)
          \/ PrintfLock(g)
          \/ Write(g, "Print")
          \/ WriteFails(g, "Print")
          \/ Exit(g)
          \/ MutexSetLevel(g, SharedLevels)

SpecPanic == InitDie /\ [][NextPanic]_vars

(***************************************************************************)
(* SpecShortcut: one goroutine makes one call of a convenience method, on  *)
(* a Logger of the single-mutex revision in any configuration.             *)
(***************************************************************************)
NextShortcut ==
    \/ ncalls = 0 /\ PrintShortcut(1, PrintNames, Values)
    \/ ncalls = 0 /\ PrintfShortcut(1, PrintfNames, PrintfArgs)
    \/ MutexPrintlnLock(1)
    \/ PrintfLock(1)
    \/ Write(1, "Print")

SpecShortcut == InitPrintln /\ [][NextShortcut]_vars

(***************************************************************************)
(* SpecFail: Spec with a sink whose Write may fail.                        *)
(***************************************************************************)
PrintlnWriteFails(g) == WriteFails(g, "Println")

NextFail == Next \/ \E g \in Procs : PrintlnWriteFails(g)

SpecFail == Init /\ [][NextFail]_vars

\* SpecMutexFail: SpecMutex with a sink whose Write may fail.
NextMutexFail == NextMutex \/ \E g \in Procs : WriteFails(g, "Print")

SpecMutexFail == Init /\ [][NextMutexFail]_vars

(***************************************************************************)
(* loglevel.go: ParseLevel.                                                *)
(***************************************************************************)
\* The strings that differ from name in the case of letters only.
RECURSIVE CaseVariants(_)
CaseVariants(name) ==
    IF name = <<>> THEN {<<>>}
    ELSE LET c == Head(name)
             lower == ToLower(<<c>>)[1]
             upper == IF \E k \in 1..Len(LowerLetters) : LowerLetters[k] = lower
                      THEN UpperLetters[CHOOSE k \in 1..Len(LowerLetters) :
                                            LowerLetters[k] = lower]
                      ELSE c
         IN {<<x>> \o r : x \in {lower, upper}, r \in CaseVariants(Tail(name))}

\* Texts that no level name matches: the empty text, the display form of an
\* undefined Level, the bracketed display forms of level2str, names cut
\* short, names with a character before or after, two names, numbers.
OtherTexts ==
    { <<>>, String(LevelInvalid), ToLower(String(LevelInvalid)),
      <<"i", "n", "v", "a", "l", "i", "d">>,
      <<"w", "a", "r", "n">>, <<"e", "r", "r">>, <<"c", "r", "i", "t">>,
      <<"p">>, <<"0">>, <<"1">>, <<"8">>, <<" ">>, <<LF>> }
        \cup {level2str(l) : l \in Levels}
        \cup {String(l) \o <<" ">> : l \in Levels}
        \cup {<<" ">> \o String(l) : l \in Levels}
        \cup {String(l) \o <<LF>> : l \in Levels}
        \cup {SubSeq(String(l), 1, Len(String(l)) - 1) : l \in Levels}
        \cup {SubSeq(String(l), 2, Len(String(l))) : l \in Levels}
        \cup {String(l) \o String(l) : l \in Levels}
        \cup {String(l) \o <<"s">> : l \in Levels}

\* The input strings of ParseLevel and LevelFlag.Set.
Texts == UNION {CaseVariants(String(l)) : l \in Levels} \cup OtherTexts

\* A goroutine calls ParseLevel(input); str is the input, lvl and err are
\* the results.
ParseLevelCall(g, inputs) ==
    /\ CanCall(g)
    /\ \E input \in inputs :
          ret' = [ret EXCEPT ![g] =
                    [Result("ParseLevel", "ok", 0, ParseLevel(input).lvl, input,
                            ncalls + 1)
                        EXCEPT !.err = ParseLevel(input).err]]
    /\ ncalls' = ncalls + 1
    /\ UNCHANGED << level, timeFormat, out, delimiter, mu, sink, pc, loc, hist,
                    defaultLogger, flag, exitStatus, muLevel, muTime >>

NextParse == ParseLevelCall(1, Texts)

InitParse == InitLogger({"w1"}, {LevelDebug}, {<<"-">>})

SpecParse == InitParse /\ [][NextParse]_vars

(***************************************************************************)
(* loglevel.go: the Level values as New and Level.String treat them.       *)
(***************************************************************************)
\* A goroutine calls r.String(); lvl is the receiver, str the result.
StringCall(g, lvls) ==
    /\ CanCall(g)
    /\ \E r \in lvls :
          ret' = [ret EXCEPT ![g] = Result("String", "ok", 0, r, String(r), ncalls + 1)]
    /\ ncalls' = ncalls + 1
    /\ UNCHANGED << level, timeFormat, out, delimiter, mu, sink, pc, loc, hist,
                    defaultLogger, flag, exitStatus, muLevel, muTime >>

NextSeverity ==
    \/ NewCall(1, Sinks, ArgLevels, ArgDelims)
    \/ StringCall(1, ArgLevels)

SpecSeverity == InitNew /\ [][NextSeverity]_vars

(***************************************************************************)
(* flag.go: LevelFlag.                                                     *)
(***************************************************************************)
\* str2arg converts the bracketed display form of a level to its command
\* line form: the text between the brackets in lower case, or an error.
str2arg(input) ==
    IF input[1] # "[" \/ input[Len(input)] # "]" \/ Len(input) < 3
    THEN [s |-> <<>>, err |-> "error"]
    ELSE [s |-> ToLower(SubSeq(input, 2, Len(input) - 1)), err |-> "nil"]

\* The keys of level2str whose command line form is arg.
SetHits(arg) ==
    {k \in Levels : str2arg(level2str(k)).err = "nil" /\ arg = str2arg(level2str(k)).s}

\* LevelFlag.Set: ranges over level2str in any order; returns the error of
\* str2arg if it meets one, stores the key whose command line form equals
\* arg and returns nil, or returns an error after the loop.  lvl is the flag
\* value before the call, str the argument.
LevelFlagSet(g, args) ==
    /\ CanCall(g)
    /\ \E arg \in args :
          IF \E k \in Levels : str2arg(level2str(k)).err # "nil"
          THEN /\ flag' = flag
               /\ ret' = [ret EXCEPT ![g] =
                     [Result("Set", "ok", 0, flag, arg, ncalls + 1) EXCEPT !.err = "error"]]
          ELSE IF SetHits(arg) # {}
          THEN \E k \in SetHits(arg) :
                  /\ flag' = k
                  /\ ret' = [ret EXCEPT ![g] =
                        Result("Set", "ok", 0, flag, arg, ncalls + 1)]
          ELSE /\ flag' = flag
               /\ ret' = [ret EXCEPT ![g] =
                     [Result("Set", "ok", 0, flag, arg, ncalls + 1) EXCEPT !.err = "error"]]
    /\ ncalls' = ncalls + 1
    /\ UNCHANGED << level, timeFormat, out, delimiter, mu, sink, pc, loc, hist,
                    defaultLogger, exitStatus, muLevel, muTime >>

\* The arguments of Set: every name in lower case and as Level.String
\* gives it, and the texts that are no level name.
FlagTexts ==
    {ToLower(String(l)) : l \in Levels} \cup {String(l) : l \in Levels} \cup OtherTexts

NextFlag == LevelFlagSet(1, FlagTexts)

SpecFlag == InitParse /\ [][NextFlag]_vars

(***************************************************************************)
(* Properties.                                                             *)
(***************************************************************************)
\* The bytes the completed writes of the history h sent to sink s, in order.
RECURSIVE Flat(_, _)
Flat(h, s) ==
    IF h = <<>> THEN <<>>
    ELSE (IF Head(h).ev = "write" /\ Head(h).dst = s THEN Head(h).buf ELSE <<>>)
             \o Flat(Tail(h), s)

\* s ends in exactly one newline.
EndsInOneLF(s) ==
    /\ Len(s) >= 1
    /\ s[Len(s)] = LF
    /\ Len(s) >= 2 => s[Len(s) - 1] # LF

\* k newlines.
LFs(k) == [i \in 1..k |-> LF]

\* C1 (gating): a Println call with a valid level L on a Logger of minimum
\* level M writes a record to the sink if and only if L <= M; when L > M it
\* returns (0, nil) and no sink has received a byte; a call is past the gate
\* only if L <= M.
C1_Gating ==
    \A g \in Procs :
        /\ pc[g] # "idle" => loc[g].level <= level
        /\ (ret[g].op = "Println" /\ ret[g].kind = "ok") =>
              /\ (ret[g].lvl <= level) <=> (sink[out] # <<>>)
              /\ (ret[g].lvl <= level) => ret[g].n = Len(sink[out])
              /\ (ret[g].lvl > level) =>
                    /\ ret[g].n = 0
                    /\ ret[g].err = "nil"
                    /\ \A s \in Sinks : sink[s] = <<>>

\* C1 witness: a call at exactly the minimum level has written its record.
C1_Witness ==
    \E g \in Procs :
        /\ ret[g].op = "Println" /\ ret[g].kind = "ok"
        /\ ret[g].lvl = level
        /\ sink[out] # <<>>

\* The record the contract prescribes for level L, delimiter d, time format
\* tf, clock reading t and message m.
Prescribed(L, d, tf, t, m) ==
    IF tf = <<>>
    THEN <<"[">> \o String(L) \o <<"]">> \o d \o m \o <<LF>>
    ELSE <<"[">> \o String(L) \o <<"]">> \o d \o Format(t, tf) \o d \o m \o <<LF>>

\* C5 (record format): the bytes Println writes for level L and stripped
\* message m are "[" Name(L) "]" delimiter m "\n" when the time format is
\* empty and "[" Name(L) "]" delimiter time delimiter m "\n" when it is not,
\* and the sink receives exactly these bytes.
C5_RecordFormat ==
    /\ \A g \in Procs :
          pc[g] = "write" =>
             /\ \E t \in Times :
                   loc[g].buf =
                      Prescribed(loc[g].level, delimiter, timeFormat, t, loc[g].record)
             /\ sink[loc[g].dst] = SubSeq(loc[g].buf, 1, loc[g].pos)
    /\ \A i \in 1..Len(hist) :
          hist[i].ev = "write" => sink[hist[i].dst] = hist[i].buf

\* C5 witness: a record with a timestamp is half written (level Critical).
C5_Witness ==
    \E g \in Procs :
        /\ pc[g] = "write"
        /\ loc[g].pos > 0
        /\ timeFormat # <<>>
        /\ loc[g].level = LevelCritical
        /\ loc[g].record # <<>>

Writers(s) == {g \in Procs : pc[g] = "write" /\ loc[g].dst = s}

\* The tickets of the calls that passed the gate, and of those that
\* completed their write.
Gated == {hist[i].seq : i \in {j \in 1..Len(hist) : hist[j].ev = "gate"}}

Written == {hist[i].seq : i \in {j \in 1..Len(hist) : hist[j].ev = "write"}}

\* The positions of a call that has passed the gate and has not returned.
PastGate == {"timeformat", "lock", "write"}

\* C2 (non-interleaving): under every interleaving each sink holds the
\* complete records of the finished writes one after the other, followed by
\* the part already written of at most one record in progress; every call
\* that passed the gate is still in flight or has exactly one record, and no
\* other call has one.
C2_NonInterleaving ==
    /\ \A s \in Sinks :
          IF Writers(s) = {}
          THEN sink[s] = Flat(hist, s)
          ELSE \E g \in Writers(s) :
                  sink[s] = Flat(hist, s) \o SubSeq(loc[g].buf, 1, loc[g].pos)
    /\ Gated = Written \cup {loc[g].seq : g \in {h \in Procs : pc[h] \in PastGate}}
    /\ \A i, j \in 1..Len(hist) :
          (hist[i].ev = "write" /\ hist[j].ev = "write" /\ hist[i].seq = hist[j].seq)
             => i = j
    /\ \A g \in Procs : pc[g] # "idle" => loc[g].seq \notin Written

\* C2 witness: a goroutine waits for mu with its record while the other is
\* half way through its write to the same Logger.
C2_Witness ==
    \E g, h \in Procs :
        /\ pc[g] = "write" /\ loc[g].pos > 0
        /\ pc[h] = "lock"

\* C3 as stated: whenever a record of level L is being written, the
\* configured minimum level is >= L, and the record has a timestamp segment
\* exactly when the configured time format is non-empty.
C3_SnapshotAsStated ==
    \A g \in Procs :
        pc[g] = "write" =>
           /\ loc[g].level <= level
           /\ (loc[g].dateTimeFormat # <<>>) <=> (timeFormat # <<>>)

\* C4 (SetOutput visibility): every step that appends bytes to a sink
\* appends them to the sink the Logger is bound to at that step, so once
\* SetOutput(w) has changed the binding no other sink receives a byte until
\* the next SetOutput does; a step of a write never changes the binding.
C4_SetOutputVisible ==
    [][\A s \in Sinks : sink'[s] # sink[s] => (s = out /\ out' = out)]_vars

\* C4 witness: a Println that started before the SetOutput call that moved
\* the Logger from "w1" to "w2", and took mu after it, has written the first
\* part of its record to "w2" and nothing to "w1".
C4_Witness ==
    \E g, h \in Procs :
        /\ ret[h].op = "SetOutput"
        /\ pc[g] = "write" /\ loc[g].pos > 0
        /\ loc[g].seq < ret[h].seq
        /\ out = "w2"
        /\ loc[g].dst = out
        /\ sink[out] # <<>>
        /\ \A s \in Sinks \ {out} : sink[s] = <<>>

\* C9 (SetLevel contract): a Level call returns the current minimum level
\* and leaves it alone; a SetLevel call with a level in [LevelPanic,
\* LevelDebug] returns and makes it the minimum level, and with any other
\* value panics and changes no field of the Logger; no other call changes
\* the minimum level.  So a read returns the argument of the last SetLevel
\* that returned.
C9_SetLevelContract ==
    [][\A g \in Procs :
          /\ (ret'[g] # ret[g] /\ ret'[g].op = "Level") =>
                (ret'[g].lvl = level /\ level' = level)
          /\ (ret'[g] # ret[g] /\ ret'[g].op = "SetLevel") =>
                IF ret'[g].lvl >= LevelPanic /\ ret'[g].lvl <= LevelDebug
                THEN ret'[g].kind = "ok" /\ level' = ret'[g].lvl
                ELSE /\ ret'[g].kind = "panic"
                     /\ UNCHANGED << level, timeFormat, out, delimiter, mu >>
          /\ (level' # level) =>
                \E h \in Procs : ret'[h] # ret[h] /\ ret'[h].op = "SetLevel"
      ]_vars

\* C9 witness: a Level call made after a SetLevel call returned its level,
\* which is not the level the Logger was constructed with.
C9_Witness ==
    \E g, h \in Procs :
        /\ ret[h].op = "SetLevel" /\ ret[h].kind = "ok"
        /\ ret[g].op = "Level"
        /\ ret[h].seq < ret[g].seq
        /\ ret[g].lvl = ret[h].lvl
        /\ g # h

\* C7 as stated: for every formatted message s that does not end in a
\* newline, the record Printf writes for s is the record it writes for
\* s "\n" and ends in exactly one newline, and autoAppendLF is idempotent.
C7_PrintfAsStated ==
    \A g \in Procs :
        (pc[g] = "write" /\ ~HasSuffix(loc[g].record, <<LF>>)) =>
           LET s == loc[g].record
           IN /\ \E t \in Times :
                    /\ loc[g].buf = PrintfBytes(loc[g].level, delimiter,
                                                loc[g].dateTimeFormat, t, s)
                    /\ loc[g].buf = PrintfBytes(loc[g].level, delimiter,
                                                loc[g].dateTimeFormat, t, s \o <<LF>>)
              /\ autoAppendLF(autoAppendLF(s)) = autoAppendLF(s)
              /\ EndsInOneLF(loc[g].buf)

\* C7 (Printf trailing-newline idempotence) as amended: for every formatted
\* message s that does not end in a newline, the record Printf writes for s
\* is the record it writes for s "\n": s followed by one newline, after the
\* level, the delimiter and the optional time and delimiter; autoAppendLF
\* is idempotent; and the record ends in exactly one newline whenever s is
\* not empty or the delimiter does not end in a newline.  A message that
\* ends in a newline is written as it is.
C7_PrintfIdempotent ==
    \A g \in Procs :
        pc[g] = "write" =>
           LET s == loc[g].record
               buf == loc[g].buf
               head == SubSeq(buf, 1, Len(buf) - Len(s) - 1)
           IN /\ autoAppendLF(autoAppendLF(s)) = autoAppendLF(s)
              /\ HasSuffix(s, <<LF>>) => HasSuffix(buf, s)
              /\ ~HasSuffix(s, <<LF>>) =>
                    /\ buf = head \o s \o <<LF>>
                    /\ \E t \in Times :
                          /\ head = SubSeq(Prescribed(loc[g].level, delimiter,
                                                      timeFormat, t, <<>>),
                                           1, Len(head))
                          /\ buf = Prescribed(loc[g].level, delimiter, timeFormat, t, s)
                          /\ buf = PrintfBytes(loc[g].level, delimiter, timeFormat, t,
                                               s \o <<LF>>)
                    /\ (s # <<>> \/ delimiter[Len(delimiter)] # LF) => EndsInOneLF(buf)

\* C7 witness: Printf is writing the record of a message that came without
\* a trailing newline from a format with two verbs.
C7_Witness ==
    \E g \in Procs :
        /\ pc[g] = "write"
        /\ loc[g].pos > 0
        /\ loc[g].format = <<"%", "s", "=", "%", "s">>
        /\ loc[g].record = <<"a", "=", "b">>
        /\ HasSuffix(loc[g].buf, <<"b", LF>>)

\* C8 (construction contract): New panics and returns no Logger whenever
\* the delimiter is empty or the level is outside [LevelPanic, LevelDebug],
\* the LevelInvalid sentinel included; otherwise it returns a Logger with
\* the level, the delimiter and the sink it was given and an empty time
\* format.
C8_NewContract ==
    \A g \in Procs :
        ret[g].op = "New" =>
           /\ IF ret[g].str = <<>> \/ ret[g].lvl < LevelPanic \/ ret[g].lvl > LevelDebug
              THEN ret[g].kind = "panic" /\ ret[g].ptr = Nil
              ELSE /\ ret[g].kind = "ok"
                   /\ ret[g].ptr # Nil
                   /\ ret[g].ptr.level = ret[g].lvl
                   /\ ret[g].ptr.delimiter = ret[g].str
                   /\ ret[g].ptr.out = ret[g].w
                   /\ ret[g].ptr.timeFormat = <<>>
           /\ ret[g].lvl = LevelInvalid => ret[g].kind = "panic"

\* C8 witness: New was called with the LevelInvalid sentinel and a
\* delimiter that is not empty, and panicked.
C8_Witness ==
    \E g \in Procs :
        /\ ret[g].op = "New"
        /\ ret[g].lvl = LevelInvalid
        /\ ret[g].str # <<>>
        /\ ret[g].kind = "panic"

\* The positions in the history of the SetupDefaultLogger calls that
\* returned before the call with ticket seq started.
SetupsBefore(seq) ==
    {i \in 1..Len(hist) : hist[i].ev = "setup" /\ hist[i].seq < seq}

\* The largest element of a non-empty set of numbers.
Max(S) == CHOOSE x \in S : \A y \in S : y <= x

\* C10 (default-instance registry): Default panics if no SetupDefaultLogger
\* call has returned before it, and otherwise returns the Logger that the
\* most recent SetupDefaultLogger call that returned has created; a
\* SetupDefaultLogger call that panics leaves the stored Logger as it was.
C10_DefaultRegistry ==
    /\ \A g \in Procs :
          ret[g].op = "Default" =>
             IF SetupsBefore(ret[g].seq) = {}
             THEN ret[g].kind = "panic"
             ELSE /\ ret[g].kind = "ok"
                  /\ ret[g].ptr = hist[Max(SetupsBefore(ret[g].seq))].ptr
    /\ defaultLogger =
          IF SetupsBefore(ncalls + 1) = {} THEN Nil
          ELSE hist[Max(SetupsBefore(ncalls + 1))].ptr

\* C10 witness: after two SetupDefaultLogger calls that returned, Default
\* returned the Logger of the second.
C10_Witness ==
    \E g \in Procs :
        /\ ret[g].op = "Default" /\ ret[g].kind = "ok"
        /\ Cardinality(SetupsBefore(ret[g].seq)) = 2
        /\ ret[g].ptr.id = 2

\* The lower case and the upper case form of a text, letter by letter.
Lowercase(s) ==
    [i \in 1..Len(s) |->
        IF \E k \in 1..26 : UpperLetters[k] = s[i]
        THEN LowerLetters[CHOOSE k \in 1..26 : UpperLetters[k] = s[i]]
        ELSE s[i]]

Uppercase(s) ==
    [i \in 1..Len(s) |->
        IF \E k \in 1..26 : LowerLetters[k] = s[i]
        THEN UpperLetters[CHOOSE k \in 1..26 : LowerLetters[k] = s[i]]
        ELSE s[i]]

\* s and t are the same text up to the case of letters.
EqualFold(s, t) ==
    /\ Len(s) = Len(t)
    /\ \A i \in 1..Len(s) : Lowercase(<<s[i]>>) = Lowercase(<<t[i]>>)

\* C11 (Parse/Display round trip): for every valid level L, ParseLevel of
\* the lower case form of L.String(), of L.String() itself and of its upper
\* case form returns (L, nil).
C11_ParseDisplayRoundTrip ==
    \A g \in Procs :
        ret[g].op = "ParseLevel" =>
           \A L \in Levels :
               ret[g].str \in {Lowercase(String(L)), String(L), Uppercase(String(L))}
                  => (ret[g].kind = "ok" /\ ret[g].lvl = L /\ ret[g].err = "nil")

\* C11 witness: ParseLevel("CRITICAL") returned (LevelCritical, nil).
C11_Witness ==
    /\ ret[1].op = "ParseLevel"
    /\ ret[1].str = <<"C", "R", "I", "T", "I", "C", "A", "L">>
    /\ ret[1].lvl = LevelCritical
    /\ ret[1].err = "nil"

\* C12 (Parse rejection): ParseLevel never panics; for an input that is no
\* level name up to case it returns LevelInvalid and a non-nil error; and
\* whenever the error is nil the level is in [LevelPanic, LevelDebug].
C12_ParseRejection ==
    \A g \in Procs :
        ret[g].op = "ParseLevel" =>
           /\ ret[g].kind = "ok"
           /\ (~ \E L \in Levels : EqualFold(ret[g].str, String(L)))
                 => (ret[g].err # "nil" /\ ret[g].lvl = LevelInvalid)
           /\ ret[g].err = "nil"
                 => (ret[g].lvl >= LevelPanic /\ ret[g].lvl <= LevelDebug
                        /\ ret[g].lvl # LevelInvalid)

\* C12 witness: ParseLevel("[Panic]"), the bracketed display form, returned
\* LevelInvalid and an error.
C12_Witness ==
    /\ ret[1].op = "ParseLevel"
    /\ ret[1].str = <<"[", "P", "a", "n", "i", "c", "]">>
    /\ ret[1].lvl = LevelInvalid
    /\ ret[1].err = "error"

\* The levels are strictly ordered from LevelPanic to LevelDebug and the
\* sentinel is outside the closed range they span.
StrictlyOrdered ==
    /\ LevelPanic < LevelAlert /\ LevelAlert < LevelCritical
    /\ LevelCritical < LevelError /\ LevelError < LevelWarning
    /\ LevelWarning < LevelNotice /\ LevelNotice < LevelInfo
    /\ LevelInfo < LevelDebug
    /\ (LevelInvalid < LevelPanic \/ LevelInvalid > LevelDebug)

\* The Level displayed as "Panic" is numerically p and the one displayed as
\* "Debug" is numerically d; New with a non-empty delimiter returns exactly
\* for the levels p..d, and panics for the sentinel.
EncodedAs(p, d) ==
    /\ StrictlyOrdered
    /\ \A g \in Procs :
          /\ ret[g].op = "String" =>
                /\ (ret[g].str = <<"P", "a", "n", "i", "c">>) <=> (ret[g].lvl = p)
                /\ (ret[g].str = <<"D", "e", "b", "u", "g">>) <=> (ret[g].lvl = d)
                /\ (ret[g].str = <<"U", "n", "d", "e", "f", "i", "n", "e", "d">>)
                      <=> (ret[g].lvl < p \/ ret[g].lvl > d)
          /\ (ret[g].op = "New" /\ ret[g].str # <<>>) =>
                /\ (ret[g].kind = "ok") <=> (ret[g].lvl >= p /\ ret[g].lvl <= d)
                /\ ret[g].lvl = LevelInvalid => ret[g].kind = "panic"

\* C13 as stated: the levels are strictly ordered, Panic is numerically 0
\* and Debug numerically 7, and the sentinel is outside [Panic, Debug] and
\* rejected.
C13_EncodingAsStated == EncodedAs(0, 7)

\* C13 (severity encoding): the levels are strictly ordered Panic < Alert <
\* Critical < Error < Warning < Notice < Info < Debug, Panic is numerically 1
\* and Debug numerically 8, and the sentinel, numerically 0, is outside
\* [Panic, Debug] and rejected.
C13_SeverityEncoding ==
    /\ EncodedAs(1, 8)
    /\ LevelPanic = 1 /\ LevelDebug = 8 /\ LevelInvalid = 0

\* C13 witness: New with the level numerically 8 and a non-empty delimiter
\* returned a Logger.
C13_Witness ==
    /\ ret[1].op = "New"
    /\ ret[1].lvl = 8
    /\ ret[1].str # <<>>
    /\ ret[1].kind = "ok"

\* C14 as stated: Set(t) returns nil exactly when ParseLevel(t) succeeds,
\* and then the stored flag value is the parsed level; for every other t
\* Set returns an error and the stored flag value is the one before the call.
C14_SetAgreesWithParse ==
    ret[1].op = "Set" =>
       IF ParseLevel(ret[1].str).err = "nil"
       THEN ret[1].err = "nil" /\ flag = ParseLevel(ret[1].str).lvl
       ELSE ret[1].err # "nil" /\ flag = ret[1].lvl

\* C15 as stated: while a goroutine is inside the sink's Write of its
\* Println or Printf, no call of another goroutine on the same Logger
\* returns.
C15_SerialisedAsStated ==
    [][\A g, h \in Procs :
          (g # h /\ pc[g] = "write" /\ ret'[h] # ret[h]) => ret'[h].kind # "ok"]_vars

\* The bytes the sink s accepted in the writes of the history h, completed
\* or failed, in order.
RECURSIVE Accepted(_, _)
Accepted(h, s) ==
    IF h = <<>> THEN <<>>
    ELSE (IF Head(h).ev \in {"write", "fail"} /\ Head(h).dst = s
          THEN Head(h).buf ELSE <<>>) \o Accepted(Tail(h), s)

\* The record of the completed write hist[i] is in its sink, after the
\* bytes of the writes before it.
RecordInSink(i) ==
    LET before == Len(Accepted(SubSeq(hist, 1, i - 1), hist[i].dst))
    IN SubSeq(sink[hist[i].dst], before + 1, before + Len(hist[i].buf)) = hist[i].buf

\* C16 (Die/Dief ordering): a goroutine is at os.Exit, or the process has
\* exited, only after the Panic-level logging call of its Die or Dief has
\* completed: its record, which begins with "[Panic]", is in the sink, or
\* its write has failed.  Die and Dief never return to their caller, for
\* every minimum level and also when the write failed; the exit status is
\* 1.  Panic and Panicf return normally and neither panic nor end the
\* process.
C16_DieOrdering ==
    /\ \A g \in Procs :
          /\ pc[g] \in {"exit", "exited"} =>
                /\ ret[g].op \in {"Die", "Dief"}
                /\ ret[g].lvl = LevelPanic
                /\ \E i \in 1..Len(hist) :
                      /\ hist[i].seq = ret[g].seq /\ hist[i].g = g
                      /\ \/ /\ hist[i].ev = "write"
                            /\ ret[g].err = "nil"
                            /\ RecordInSink(i)
                            /\ SubSeq(hist[i].buf, 1, 7) = <<"[", "P", "a", "n", "i", "c", "]">>
                         \/ hist[i].ev = "fail" /\ ret[g].err # "nil"
          /\ ret[g].op \in {"Die", "Dief"} =>
                (ret[g].kind = "ok" /\ pc[g] \in {"exit", "exited"})
          /\ ret[g].op \in {"Panic", "Panicf"} =>
                (ret[g].kind = "ok" /\ pc[g] \notin {"exit", "exited"})
    /\ exitStatus # Running <=> (\E g \in Procs : pc[g] = "exited")
    /\ exitStatus # Running => exitStatus = 1

\* C16 witness: the process has exited with status 1 from a Dief whose
\* write failed, on a Logger of minimum level LevelPanic, after the other
\* goroutine's Panic returned.
C16_Witness ==
    \E g, h \in Procs :
        /\ exitStatus = 1
        /\ pc[g] = "exited"
        /\ ret[g].op = "Dief" /\ ret[g].err \in SinkErrors
        /\ level = LevelPanic
        /\ ret[h].op = "Panic" /\ ret[h].kind = "ok" /\ ret[h].err = "nil"

\* The positions in the history of the write attempts of call seq.
Attempts(seq) ==
    {i \in 1..Len(hist) : hist[i].seq = seq /\ hist[i].ev \in {"write", "fail"}}

\* Every call whose write failed made one write attempt and returned, without
\* panicking, the byte count and the error of the sink; mu is held only by
\* a goroutine inside a write; and every sink holds the bytes it accepted,
\* in the order of the writes, followed by those of the write in progress.
FailureSurfaced ==
    /\ \A i \in 1..Len(hist) :
          hist[i].ev = "fail" =>
             /\ Cardinality(Attempts(hist[i].seq)) = 1
             /\ hist[i].err \in SinkErrors
             /\ ret[hist[i].g].seq = hist[i].seq =>
                   /\ ret[hist[i].g].kind = "ok"
                   /\ ret[hist[i].g].n = Len(hist[i].buf)
                   /\ ret[hist[i].g].err = hist[i].err
    /\ \A g \in Procs : mu = g => pc[g] = "write"
    /\ \A s \in Sinks :
          IF Writers(s) = {}
          THEN sink[s] = Accepted(hist, s)
          ELSE \E g \in Writers(s) :
                  sink[s] = Accepted(hist, s) \o SubSeq(loc[g].buf, 1, loc[g].pos)

\* C17 (sink failure is surfaced once): a Println whose sink write fails
\* makes one write attempt and returns the sink's byte count and error as
\* they are, without panicking; the step in which it returns releases mu,
\* sends no further byte to a sink and leaves level, time format, sink
\* binding and delimiter unchanged; the records of later calls are written
\* whole.
C17_SinkFailureSurfaced ==
    [][/\ FailureSurfaced'
       /\ (Len(hist') > Len(hist) /\ hist'[Len(hist')].ev = "fail") =>
             /\ UNCHANGED << level, timeFormat, out, delimiter, sink >>
             /\ mu' = Unlocked
             /\ pc'[hist'[Len(hist')].g] = "idle"
             /\ ret'[hist'[Len(hist')].g].seq = hist'[Len(hist')].seq
      ]_vars

\* C17 witness: a goroutine's Println failed after the sink had accepted
\* the first part of the record and returned that count and the error; its
\* next Println then wrote its whole record to the same sink.
C17_Witness ==
    \E g \in Procs :
        /\ Len(hist) = 4
        /\ hist[2].ev = "fail" /\ hist[2].g = g /\ Len(hist[2].buf) > 0
        /\ hist[2].err = "ErrClosed"
        /\ hist[4].ev = "write" /\ hist[4].g = g /\ hist[4].dst = hist[2].dst
        /\ sink[hist[4].dst] = hist[2].buf \o hist[4].buf
        /\ ret[g].err = "nil" /\ ret[g].n = Len(hist[4].buf)
        /\ pc[g] = "idle" /\ mu = Unlocked

\* The name of a convenience method without the f of the Printf forms,
\* letter by letter.
Spelled(name) ==
    CASE name \in {"Panic", "Panicf"}       -> <<"P", "a", "n", "i", "c">>
      [] name \in {"Alert", "Alertf"}       -> <<"A", "l", "e", "r", "t">>
      [] name \in {"Critical", "Criticalf"} -> <<"C", "r", "i", "t", "i", "c", "a", "l">>
      [] name \in {"Error", "Errorf"}       -> <<"E", "r", "r", "o", "r">>
      [] name \in {"Warning", "Warningf"}   -> <<"W", "a", "r", "n", "i", "n", "g">>
      [] name \in {"Notice", "Noticef"}     -> <<"N", "o", "t", "i", "c", "e">>
      [] name \in {"Info", "Infof"}         -> <<"I", "n", "f", "o">>
      [] name \in {"Debug", "Debugf"}       -> <<"D", "e", "b", "u", "g">>

\* LevelX for the method X or Xf: the level whose name is X.
LevelNamed(name) == CHOOSE L \in Levels : String(L) = Spelled(name)

\* C18 (convenience methods): a call l.X(v...) hands the sink the bytes that
\* l.Println(LevelX, v...) hands it, and a call l.Xf(format, a...) those of
\* l.Printf(LevelX, format, a...), for the writer the Logger is bound to;
\* the call returns what that Println or Printf returns: (0, nil) with no
\* byte in any sink when LevelX is above the minimum level, and otherwise
\* the length of the record, which is then the content of the sink; no
\* method logs at a level other than the one it is named after.
C18_Shortcuts ==
    /\ (pc[1] # "idle" /\ loc[1].caller \in PrintNames \cup PrintfNames) =>
          loc[1].level = LevelNamed(loc[1].caller)
    /\ (pc[1] = "write" /\ loc[1].caller \in PrintNames) =>
          /\ LevelNamed(loc[1].caller) <= level
          /\ loc[1].dst = out
          /\ \E t \in Times :
                loc[1].buf = MutexPrintlnBytes(LevelNamed(loc[1].caller), delimiter,
                                               timeFormat, t, loc[1].v)
    /\ (pc[1] = "write" /\ loc[1].caller \in PrintfNames) =>
          /\ LevelNamed(loc[1].caller) <= level
          /\ loc[1].dst = out
          /\ \E t \in Times :
                loc[1].buf = PrintfBytes(LevelNamed(loc[1].caller), delimiter,
                                         timeFormat, t,
                                         Sprintf(loc[1].format, loc[1].v))
    /\ ret[1].op \in PrintNames \cup PrintfNames =>
          /\ ret[1].kind = "ok" /\ ret[1].err = "nil"
          /\ ret[1].lvl = LevelNamed(ret[1].op)
          /\ IF LevelNamed(ret[1].op) > level
             THEN ret[1].n = 0 /\ hist = <<>> /\ \A s \in Sinks : sink[s] = <<>>
             ELSE /\ Len(hist) = 2 /\ hist[2].ev = "write" /\ hist[2].dst = out
                  /\ sink[out] = hist[2].buf
                  /\ \A s \in Sinks \ {out} : sink[s] = <<>>
                  /\ ret[1].n = Len(hist[2].buf)
                  /\ SubSeq(hist[2].buf, 1, Len(Spelled(ret[1].op)) + 2)
                        = <<"[">> \o Spelled(ret[1].op) \o <<"]">>

\* C18 witness: l.Infof("%s=%s", "a", "b") on a Logger of minimum level
\* LevelInfo with a time format has written its record, and it begins with
\* "[Info]".
C18_Witness ==
    /\ ret[1].op = "Infof"
    /\ level = LevelInfo
    /\ timeFormat # <<>>
    /\ ret[1].n > 0
    /\ SubSeq(sink[out], 1, 6) = <<"[", "I", "n", "f", "o", "]">>
    /\ HasSuffix(sink[out], <<"a", "=", "b", LF>>)

\* The step is one of a Println or Printf call of goroutine g.
PrintlnStep(g) ==
    \/ pc'[g] # pc[g]
    \/ loc'[g] # loc[g]
    \/ ret'[g] # ret[g] /\ ret'[g].op \in {"Println", "Printf"}

\* C19 (configuration invariant): from a Logger that New returned, in every
\* state the minimum level is in [LevelPanic, LevelDebug] and the delimiter
\* is not empty; no step, of a call that returns or of one that panics,
\* changes the delimiter, so it is the string New was given; and no step of
\* a Println call changes the level, the time format or the sink binding.
C19_ConfigurationInvariant ==
    [][/\ level >= LevelPanic /\ level <= LevelDebug
       /\ level' >= LevelPanic /\ level' <= LevelDebug
       /\ delimiter # <<>>
       /\ delimiter' = delimiter
       /\ \A g \in Procs :
             PrintlnStep(g) => UNCHANGED << level, timeFormat, out >>
      ]_vars

\* C19 witness: on a Logger constructed with the delimiter "\n" and the
\* level LevelDebug, a SetLevel call with the sentinel has panicked and a
\* Println has written a record; the level and the delimiter are as New
\* set them.
C19_Witness ==
    \E g, h \in Procs :
        /\ ret[g].op = "SetLevel" /\ ret[g].kind = "panic" /\ ret[g].lvl = LevelInvalid
        /\ ret[h].op = "Println" /\ ret[h].n > 0
        /\ delimiter = <<LF>>
        /\ level = LevelDebug

\* The mutexes of the Logger that goroutine g holds.
Held(g) ==
    {m \in {"mu", "muLevel", "muTime"} :
        \/ m = "mu" /\ mu = g
        \/ m = "muLevel" /\ muLevel = g
        \/ m = "muTime" /\ muTime = g}

\* No goroutine is at a Lock while it holds a mutex of the Logger, and a
\* goroutine that is in no call, whether its last call returned or
\* panicked, holds none.
NoLockHeldAtLock ==
    \A g \in Procs :
        /\ pc[g] \in {"idle", "trigger", "timeformat", "lock", "accessor"}
              => Held(g) = {}
        /\ pc[g] = "triggered" => Held(g) = {"muLevel"}
        /\ pc[g] = "timeformatted" => Held(g) = {"muTime"}
        /\ pc[g] = "write" => Held(g) = {"mu"}

\* C20 (deadlock freedom): under fair scheduling and a sink whose Write
\* returns, every call of a Logger method by either goroutine returns or
\* panics, and the goroutine then holds none of mu, muLevel and muTime.  No
\* goroutine waits at a Lock for a mutex it holds itself: trigger and
\* TimeFormat have released theirs before Println locks mu.  A call with an
\* undefined level panics holding no mutex, so the other goroutine's calls
\* still return.
C20_DeadlockFreedom ==
    /\ \A g \in Procs : (pc[g] # "idle") ~> (pc[g] = "idle")
    /\ []NoLockHeldAtLock

\* C20 witness: one goroutine is inside the sink's Write holding mu, part
\* of its record written, while the other waits at Println's l.mu.Lock()
\* after a Println of the first with an undefined level panicked.
C20_Witness ==
    \E g, h \in Procs :
        /\ g # h
        /\ pc[g] = "write" /\ mu = g /\ loc[g].pos > 0
        /\ pc[h] = "lock"
        /\ ret[g].kind \in {"panic", "none"}

\* The names under which a logging call returns: Println and Printf, which
\* return through Fprintf ("Print"), and the Panic-level convenience methods.
PanicCallers == {"Println", "Printf", "Print", "Panic", "Panicf", "Die", "Dief"}

\* Call seq of goroutine g has attempted a write: the sink accepted its
\* record or failed it.
WriteAttempted(h, g, seq) ==
    \E i \in 1..Len(h) :
        h[i].g = g /\ h[i].seq = seq /\ h[i].ev \in {"write", "fail"}

\* C21 (Panic level never gated): whatever the Logger's minimum level, a
\* Println, Printf, Panic, Panicf, Die or Dief at LevelPanic that reaches
\* the gate passes it and goes on to the sink's Write; such a call never
\* panics and never returns without a write attempt, and Die and Dief reach
\* os.Exit only after the attempt.
C21_PanicNeverGated ==
    [][\A g \in Procs :
          /\ (/\ pc[g] \in {"lockp", "lockf"}
              /\ loc[g].level = LevelPanic
              /\ pc'[g] # pc[g])
                => /\ pc'[g] = "write"
                   /\ hist' = Append(hist, GateEvent(g, loc[g].seq))
          /\ (/\ ret'[g] # ret[g]
              /\ ret'[g].lvl = LevelPanic
              /\ ret'[g].op \in PanicCallers)
                => /\ ret'[g].kind = "ok"
                   /\ WriteAttempted(hist', g, ret'[g].seq)
          /\ (pc'[g] = "exit" /\ pc[g] # "exit")
                => WriteAttempted(hist', g, ret'[g].seq)]_vars

\* C21 witness: after a SetLevel(LevelPanic) of the other goroutine
\* returned, with the minimum level still LevelPanic, a Die has written its
\* record and the process has exited.
C21_Witness ==
    \E g, h \in Procs :
        /\ level = LevelPanic
        /\ ret[h].op = "SetLevel" /\ ret[h].kind = "ok"
        /\ ret[h].lvl = LevelPanic
        /\ pc[g] = "exited"
        /\ ret[g].op = "Die" /\ ret[g].n > 0 /\ ret[g].err = "nil"
        /\ ret[g].seq > ret[h].seq

====
